---- MODULE Spec2Model ----
(***************************************************************************)
(* Coupon distribution server: the claim path (POST/GET /api/coupons/next) *)
(* of the revisions kept in the repository, over one shared document store *)
(* (the coupon pool and the claim ledger).                                  *)
(*                                                                         *)
(* The clock counts whole seconds: 3600000 ms is Hour, 60000 ms is Minute. *)
(* Every `await` of a handler is a scheduling point, so every store        *)
(* operation of a request is one action and requests interleave freely.    *)
(* A store write may fail (ok = FALSE); a failing read is the action        *)
(* MainThrows of SpecOne.                                                  *)
(*                                                                         *)
(* Not modelled: the express-rate-limit middleware that src/index.js puts  *)
(* in front of /api/coupons/next (a per-process, per-address counter) and  *)
(* the CORS and header middleware.                                         *)
(*                                                                         *)
(* Spec       the handlers on a freshly seeded store, connection up        *)
(* SpecFix    the handlers beside one run of fix-coupon.js                 *)
(* SpecLedger the handlers on a store that holds two earlier claims        *)
(* SpecUsed   the transaction revision on a store with a used-up coupon    *)
(* SpecDown   the handlers when the connection flag starts down            *)
(* SpecScripts the maintenance scripts, on a seeded or a fresh database    *)
(* SpecReset  the claims-only revision of src/index.js (deleteMany)        *)
(* SpecStatus GET /api/coupons/status behind the connection middleware     *)
(* SpecWorn   the handlers on a pool whose first coupon is nearly used up  *)
(* SpecUI     the front-end's claimCoupon and its retry timer              *)
(* SpecOne    the two claim handlers of src/index.js, with fairness        *)
(* SpecExpiry the handler of src/index.js in the hour a coupon expires     *)
(* SpecEdge   the handlers one second before an earlier claim is an hour old*)
(* SpecRobin  the round-robin revision on a pool earlier users drew from   *)
(* SpecConn   the store connection of one process: attempts, timers, events*)
(* SpecLive   SpecConn with the fairness of the event loop                 *)
(***************************************************************************)
EXTENDS Integers, Sequences, FiniteSets, TLC

\* ------------------------------------------------------------------ bounds
NumReq == 2
MaxTicks == 1
MaxCoupons == 3
NumCalls == 2
MaxSent == 6
MaxAttempts == 2
MaxTimers == 2

\* ------------------------------------------------------ program constants
Hour == 3600
Minute == 60
NinetyDays == 7776000
Day == 86400
TenMinutes == 600
LongRetry == 300
StatusRetry == 30
CatchRetry == 10
MAX_RETRIES == 3
SeedMaxRedemptions == 100
ShortRetry == 5
SeedSize == 5
Null == -1

Requests == 1..NumReq
NoSession == 0
Sessions == {1, 2}
IPs == {"ip1", "ip2"}
TickSteps == {1, Hour - 1, Hour}
Revisions == {"main", "server", "dual", "txn"}

VARIABLES
  rev,      \* which revision of the server is deployed
  hook,     \* whether the CouponClaim schema carries the pre('save') check
  now,      \* Date.now()
  ticks,    \* how many times the clock has advanced
  coupons,  \* the Coupon collection; a coupon's _id is its index
  claims,   \* the CouponClaim collection, in insertion order
  stripe,   \* ids of the coupons created at the payment provider
  req,      \* the requests: handler locals and position
  fix,      \* the fix-coupon script: position and its copy of the document
  isConnected,  \* the server's connection flag
  uniqueIndex,  \* whether the store holds the unique index on Coupon.code
  stat,         \* the GET /api/coupons/status calls: locals, position, response
  ui,           \* the front-end: React state, the running claimCoupon closure
  conn          \* the store connection: attempts, retry timers, events

vars == <<rev, hook, now, ticks, coupons, claims, stripe, req, fix, isConnected,
         uniqueIndex, stat, ui, conn>>

\* ----------------------------------------------------------------- helpers
Max(S) == CHOOSE x \in S : \A y \in S : y <= x

\* Math.ceil(a / b) for integers a and b > 0
CeilDiv(a, b) == -((-a) \div b)

\* JavaScript truthiness of a Number field that may be null
Truthy(n) == n # Null /\ n # 0

SeedCoupon(i, max) ==
  [code |-> <<"SEED", i>>, expiresAt |-> NinetyDays, maxRedemptions |-> max,
   timesRedeemed |-> 0, active |-> TRUE, createdAt |-> 0, lastAssignedAt |-> Null]

Pools ==
  { <<>>,
    <<SeedCoupon(1, 1)>>,
    <<SeedCoupon(1, SeedMaxRedemptions), SeedCoupon(2, SeedMaxRedemptions)>> }

CouponIds == 1..Len(coupons)

\* Coupon.findAvailable / the findOne filter of the server revision
Available(c, at) ==
  /\ c.expiresAt > at
  /\ c.active
  /\ (c.maxRedemptions = Null \/ c.timesRedeemed < c.maxRedemptions)

\* couponSchema.methods.isExpired
isExpired(c, at) == c.expiresAt < at

\* couponSchema.methods.isValid
isValid(c, at) ==
  IF ~c.active THEN FALSE
  ELSE IF isExpired(c, at) THEN FALSE
  ELSE IF Truthy(c.maxRedemptions) /\ c.timesRedeemed >= c.maxRedemptions THEN FALSE
  ELSE TRUE

\* couponSchema.methods.incrementRedemptions, on the handler's copy of the document
incrementRedemptions(c) ==
  LET n == c.timesRedeemed + 1 IN
  [c EXCEPT !.timesRedeemed = n,
            !.active = IF Truthy(c.maxRedemptions) /\ n >= c.maxRedemptions
                       THEN FALSE ELSE c.active]

\* document.save() of a loaded document: $set of the modified paths only
SaveModified(stored, loaded, local) ==
  [stored EXCEPT
     !.timesRedeemed = IF local.timesRedeemed # loaded.timesRedeemed
                       THEN local.timesRedeemed ELSE stored.timesRedeemed,
     !.active = IF local.active # loaded.active THEN local.active ELSE stored.active]

\* { sessionId } OR { ipAddress }
MatchesIdentity(k, s, ip) == k.sessionId = s \/ k.ipAddress = ip

ClaimIdx == 1..Len(claims)

NoDoc == [code |-> <<"", 0>>, expiresAt |-> 0, maxRedemptions |-> Null,
          timesRedeemed |-> 0, active |-> FALSE, createdAt |-> 0, lastAssignedAt |-> Null]

IdleReq ==
  [pc |-> "idle", sessionId |-> NoSession, ipAddress |-> "",
   oneHourAgo |-> 0, selectAt |-> 0, docId |-> 0, loaded |-> NoDoc,
   doc |-> NoDoc, claimedAt |-> 0, status |-> 0, retryAfter |-> 0, minutes |-> 0,
   granted |-> 0, minted |-> 0, claim |-> 0, idAt |-> 0, excluded |-> {},
   after |-> {}, empty |-> FALSE, outcome |-> "none", ipClaimAt |-> Null,
   down |-> FALSE, available |-> {}, responses |-> 0]

\* the cookie middleware: a request without a sessionId cookie is given a fresh one
FreshSession(r) == Cardinality(Sessions) + r

\* res.status(st).json(...): the handler returns and its locals are gone
Finish(q, st, out) ==
  [IdleReq EXCEPT !.pc = "done", !.status = st, !.outcome = out,
                  !.sessionId = q.sessionId, !.ipAddress = q.ipAddress,
                  !.oneHourAgo = q.oneHourAgo,
                  !.minted = q.minted, !.claim = q.claim,
                  !.after = q.after, !.empty = q.empty, !.down = q.down,
                  !.responses = q.responses + 1]

Respond(r, st, out) == req' = [req EXCEPT ![r] = Finish(req[r], st, out)]

\* the code of the first seeded coupon, the one fix-coupon.js looks for
SAVE10 == SeedCoupon(1, SeedMaxRedemptions).code

Calls == 1..NumCalls

IdleCall ==
  [pc |-> "idle", found |-> <<>>, oneDayAgo |-> 0, seen |-> <<>>, at |-> 0, status |-> 0,
   retryAfter |-> 0, body |-> <<>>]

IdleStat == [k \in Calls |-> IdleCall]

\* useState(...) of App and the locals of the claimCoupon call in progress
IdleUI ==
  [pc |-> "idle", retries |-> 0, lastClaimTime |-> Null, seenRetries |-> 0,
   seenLastClaimTime |-> Null, sent |-> 0, delay |-> 0, retried |-> {},
   error |-> FALSE, coupon |-> FALSE]

IdleFix == [pc |-> "idle", docId |-> 0, loaded |-> NoDoc, doc |-> NoDoc]

\* connectToMongoDB calls in progress, told apart by the slot they occupy
Attempts == 1..MaxAttempts

IdleAttempt == [pc |-> "idle", origin |-> "", code |-> <<"", 0>>]

\* a process whose connection is up and that is listening
IdleConn ==
  [uri |-> TRUE, reachable |-> TRUE, established |-> TRUE, opened |-> TRUE,
   dropPending |-> FALSE, timers |-> 0, listening |-> TRUE, booted |-> TRUE,
   seen |-> "none", initial |-> 0, failed |-> FALSE,
   att |-> [a \in Attempts |-> IdleAttempt]]

Init ==
  /\ rev \in Revisions
  /\ hook \in BOOLEAN
  /\ now = 0
  /\ ticks = 0
  /\ coupons \in Pools
  /\ claims = <<>>
  /\ stripe = {}
  /\ req = [r \in Requests |-> IdleReq]
  /\ fix = IdleFix
  /\ isConnected = TRUE
  /\ uniqueIndex = TRUE
  /\ stat = IdleStat
  /\ ui = IdleUI
  /\ conn = IdleConn

\* the clock advances
Tick(d) ==
  /\ ticks < MaxTicks
  /\ now' = now + d
  /\ ticks' = ticks + 1
  /\ UNCHANGED <<conn, ui, stat, uniqueIndex, isConnected, fix, rev, hook, coupons, claims, stripe, req>>

\* ---------------------------------------------------------------- ledger
\* CouponClaim.find({ $or: [{sessionId}, {ipAddress}], claimedAt: { $gt: since } })
RecentClaims(s, ip, since) ==
  {i \in ClaimIdx : MatchesIdentity(claims[i], s, ip) /\ claims[i].claimedAt > since}

\* .sort({ claimedAt: -1 })[0].claimedAt
MostRecentAt(S) == Max({claims[i].claimedAt : i \in S})

NewClaim(q) ==
  [sessionId |-> q.sessionId, ipAddress |-> q.ipAddress, couponId |-> q.docId,
   claimedAt |-> q.claimedAt]

\* the order in which requests reach the server names them, and so does the
\* order in which sessions and addresses first appear
InOrder(r) == \A q \in Requests : q < r => req[q].pc # "idle"

\* the requests that were answered before this one arrives
Answered == {q \in Requests : req[q].pc = "done"}

FirstUse(s, ip) ==
  LET started == {q \in Requests : req[q].pc # "idle"}
      usedS == ({req[q].sessionId : q \in started}
                  \cup {claims[i].sessionId : i \in ClaimIdx}) \cap Sessions
      usedIP == {req[q].ipAddress : q \in started}
                  \cup {claims[i].ipAddress : i \in ClaimIdx}
  IN /\ s \in Sessions => \A t \in Sessions : t < s => t \in usedS
     /\ ip = "ip2" => "ip1" \in usedIP

\* ------------------------------------- POST /api/coupons/next, src/index.js
\* cookie middleware, connection middleware (up: whether connectToMongoDB
\* succeeds when the flag is down), then the handler up to its first await
MainStart(r, s, ip, up) ==
  /\ rev = "main"
  /\ req[r].pc = "idle"
  /\ InOrder(r)
  /\ FirstUse(s, ip)
  /\ isConnected' = (isConnected \/ up)
  /\ LET sid == IF s = NoSession THEN FreshSession(r) ELSE s IN
     IF ~(isConnected \/ up)
     THEN req' = [req EXCEPT ![r] = [Finish(req[r], 503, "unavailable") EXCEPT
                                       !.sessionId = sid, !.ipAddress = ip,
                                       !.retryAfter = ShortRetry, !.down = TRUE]]
     ELSE IF sid = NoSession
     THEN Respond(r, 400, "missing")
     ELSE req' = [req EXCEPT ![r].pc = "cooldown", ![r].sessionId = sid,
                             ![r].ipAddress = ip,
                             ![r].after = Answered,
                             ![r].oneHourAgo = now - Hour]
  /\ UNCHANGED <<conn, ui, stat, uniqueIndex, fix, rev, hook, now, ticks, coupons, claims, stripe>>

\* MainCooldown with a rejection that also stamps the identity's latest claim
\* with the time of the attempt: the variant that C28 has to tell apart from
\* the code
MainCooldownRestarts(r) ==
  /\ rev = "main"
  /\ req[r].pc = "cooldown"
  /\ LET recent == RecentClaims(req[r].sessionId, req[r].ipAddress, req[r].oneHourAgo)
         timeLeft == CeilDiv(MostRecentAt(recent) + Hour - now, Minute)
         latest == CHOOSE i \in recent : claims[i].claimedAt = MostRecentAt(recent)
     IN IF recent # {}
        THEN /\ req' = [req EXCEPT ![r] = [Finish(req[r], 429, "cooldown") EXCEPT
                                             !.minutes = timeLeft,
                                             !.retryAfter = timeLeft * 60]]
             /\ claims' = [claims EXCEPT ![latest].claimedAt = now]
        ELSE /\ req' = [req EXCEPT ![r].pc = "select", ![r].selectAt = now]
             /\ UNCHANGED claims
  /\ UNCHANGED <<conn, ui, stat, uniqueIndex, isConnected, fix, rev, hook, now, ticks, coupons, stripe>>

\* the recent-claims query answers; 429 or on to the coupon query
MainCooldown(r) ==
  /\ rev = "main"
  /\ req[r].pc = "cooldown"
  /\ LET recent == RecentClaims(req[r].sessionId, req[r].ipAddress, req[r].oneHourAgo)
         timeLeft == CeilDiv(MostRecentAt(recent) + Hour - now, Minute)
     IN IF recent # {}
        THEN req' = [req EXCEPT ![r] = [Finish(req[r], 429, "cooldown") EXCEPT
                                          !.minutes = timeLeft,
                                          !.retryAfter = timeLeft * 60]]
        ELSE req' = [req EXCEPT ![r].pc = "select", ![r].selectAt = now]
  /\ UNCHANGED <<conn, ui, stat, uniqueIndex, isConnected, fix, rev, hook, now, ticks, coupons, claims, stripe>>

\* Coupon.findAvailable().findOne(): the newest eligible coupon, then isValid
MainFindAvailable(r) ==
  /\ rev = "main"
  /\ req[r].pc = "select"
  /\ LET elig == {i \in CouponIds : Available(coupons[i], req[r].selectAt)} IN
     IF elig = {}
     THEN req' = [req EXCEPT ![r].pc = "stripe", ![r].idAt = now, ![r].empty = TRUE]
     ELSE \E i \in elig :
            /\ \A j \in elig : coupons[j].createdAt <= coupons[i].createdAt
            /\ IF ~isValid(coupons[i], now)
               THEN Respond(r, 400, "invalid")
               ELSE req' = [req EXCEPT ![r].pc = "claim", ![r].docId = i,
                                       ![r].loaded = coupons[i], ![r].doc = coupons[i],
                                       ![r].claimedAt = now]
  /\ UNCHANGED <<conn, ui, stat, uniqueIndex, isConnected, fix, rev, hook, now, ticks, coupons, claims, stripe>>

\* stripe.coupons.create answers or throws; the local document is built either way
MainStripe(r, ok) ==
  /\ rev = "main"
  /\ req[r].pc = "stripe"
  /\ LET id == <<"SAVE25", req[r].idAt>>
         code == IF ok THEN id ELSE <<"LOCAL", now>>
         fresh == [code |-> code, expiresAt |-> now + NinetyDays,
                   maxRedemptions |-> SeedMaxRedemptions, timesRedeemed |-> 0,
                   active |-> TRUE, createdAt |-> now, lastAssignedAt |-> Null]
     IN /\ ok => id \notin stripe
        /\ stripe' = IF ok THEN stripe \cup {id} ELSE stripe
        /\ req' = [req EXCEPT ![r].pc = "saveNew", ![r].doc = fresh, ![r].loaded = fresh]
  /\ UNCHANGED <<conn, ui, stat, uniqueIndex, isConnected, fix, rev, hook, now, ticks, coupons, claims>>

\* newCoupon.save(): the unique index on code rejects a duplicate
MainSaveNew(r, ok) ==
  /\ rev = "main"
  /\ req[r].pc = "saveNew"
  /\ LET dup == uniqueIndex /\ \E i \in CouponIds : coupons[i].code = req[r].doc.code
         stored == [req[r].doc EXCEPT !.createdAt = now]
     IN IF ok /\ ~dup
        THEN /\ coupons' = Append(coupons, stored)
             /\ req' = [req EXCEPT ![r].pc = "claim", ![r].docId = Len(coupons) + 1,
                                   ![r].minted = Len(coupons) + 1,
                                   ![r].doc = stored, ![r].loaded = stored,
                                   ![r].claimedAt = now]
        ELSE /\ Respond(r, 500, IF ok THEN "duplicate" ELSE "error")
             /\ UNCHANGED coupons
  /\ UNCHANGED <<conn, ui, stat, uniqueIndex, isConnected, fix, rev, hook, now, ticks, claims, stripe>>

\* MainSave with a catch block that logs the error and sends nothing: the
\* variant that C27 has to tell apart from the code
MainSaveSilent(r, ok) ==
  /\ rev = "main"
  /\ req[r].pc = "save"
  /\ IF ok
     THEN /\ coupons' = [coupons EXCEPT
                           ![req[r].docId] = SaveModified(@, req[r].loaded, req[r].doc)]
          /\ req' = [req EXCEPT ![r] = [Finish(req[r], 200, "granted") EXCEPT
                                          !.granted = req[r].docId]]
     ELSE /\ req' = [req EXCEPT ![r].pc = "caught"]
          /\ UNCHANGED coupons
  /\ UNCHANGED <<conn, ui, stat, uniqueIndex, isConnected, fix, rev, hook, now, ticks, claims, stripe>>

\* coupon.incrementRedemptions(): save() writes the handler's copy back
MainSave(r, ok) ==
  /\ rev = "main"
  /\ req[r].pc = "save"
  /\ IF ok
     THEN /\ coupons' = [coupons EXCEPT
                           ![req[r].docId] = SaveModified(@, req[r].loaded, req[r].doc)]
          /\ req' = [req EXCEPT ![r] = [Finish(req[r], 200, "granted") EXCEPT
                                          !.granted = req[r].docId]]
     ELSE /\ Respond(r, 500, "error")
          /\ UNCHANGED coupons
  /\ UNCHANGED <<conn, ui, stat, uniqueIndex, isConnected, fix, rev, hook, now, ticks, claims, stripe>>

\* a store query of the handler rejects: the outer catch answers 500
MainThrows(r) ==
  /\ rev = "main"
  /\ req[r].pc \in {"cooldown", "select"}
  /\ req' = [req EXCEPT ![r] = [Finish(req[r], 500, "error") EXCEPT
                                  !.retryAfter = CatchRetry]]
  /\ UNCHANGED <<conn, ui, stat, uniqueIndex, isConnected, fix, rev, hook, now, ticks, coupons, claims, stripe>>

\* ---------------------------------- POST /api/claim-coupon, src/index.js
\* connection middleware; then 400 without both body fields; otherwise the
\* call of canUserClaimCoupon, which is defined nowhere: the ReferenceError is
\* caught and answered with 500
ClaimCoupon(r, s, ip, up) ==
  /\ rev = "rev2"
  /\ req[r].pc = "idle"
  /\ InOrder(r)
  /\ FirstUse(s, ip)
  /\ isConnected' = (isConnected \/ up)
  /\ req' = [req EXCEPT ![r] =
               [(IF ~(isConnected \/ up)
                 THEN [Finish(req[r], 503, "unavailable") EXCEPT
                         !.retryAfter = ShortRetry, !.down = TRUE]
                 ELSE IF s = NoSession
                      THEN Finish(req[r], 400, "missing")
                      ELSE Finish(req[r], 500, "error"))
                EXCEPT !.sessionId = s, !.ipAddress = ip]]
  /\ UNCHANGED <<conn, ui, stat, uniqueIndex, fix, rev, hook, now, ticks, coupons, claims, stripe>>

\* ------------------------------------------------------ CouponClaim.create
\* validation and the pre('save') middleware of the schema that has one
PreSave(r) ==
  /\ req[r].pc = "claim"
  /\ IF hook /\ RecentClaims(req[r].sessionId, req[r].ipAddress, now - Hour) # {}
     THEN Respond(r, 500, "error")
     ELSE req' = [req EXCEPT ![r].pc = "insert"]
  /\ UNCHANGED <<conn, ui, stat, uniqueIndex, isConnected, fix, rev, hook, now, ticks, coupons, claims, stripe>>

\* the insert of the claim document, outside any transaction
InsertClaim(r, ok) ==
  /\ rev \in {"main", "server", "dual"}
  /\ req[r].pc = "insert"
  /\ IF ok
     THEN /\ claims' = Append(claims, NewClaim(req[r]))
          /\ req' = [req EXCEPT ![r].claim = Len(claims) + 1,
                                ![r].pc = IF rev = "main" THEN "save" ELSE "inc",
                                ![r].doc = IF rev = "main"
                                           THEN incrementRedemptions(req[r].doc)
                                           ELSE req[r].doc]
     ELSE /\ Respond(r, 500, "error")
          /\ UNCHANGED claims
  /\ UNCHANGED <<conn, ui, stat, uniqueIndex, isConnected, fix, rev, hook, now, ticks, coupons, stripe>>

\* ------------------------------ POST /api/coupons/next, src/server/index.js
\* cookie middleware, then the handler up to its first await
ServerStart(r, s, ip, up) ==
  /\ rev = "server"
  /\ req[r].pc = "idle"
  /\ InOrder(r)
  /\ FirstUse(s, ip)
  /\ isConnected' = (isConnected \/ up)
  /\ LET sid == IF s = NoSession THEN FreshSession(r) ELSE s IN
     IF sid = NoSession
     THEN Respond(r, 400, "missing")
     ELSE req' = [req EXCEPT ![r].pc = "cooldown", ![r].sessionId = sid,
                             ![r].ipAddress = ip,
                             ![r].after = Answered,
                             ![r].oneHourAgo = now - Hour,
                             ![r].down = ~(isConnected \/ up)]
  /\ UNCHANGED <<conn, ui, stat, uniqueIndex, fix, rev, hook, now, ticks, coupons, claims, stripe>>

\* CouponClaim.find({ sessionId }), then the claims less than an hour old
SessionRecent(s, at) ==
  {i \in ClaimIdx : claims[i].sessionId = s /\ at - claims[i].claimedAt < Hour}

ServerCooldown(r) ==
  /\ rev = "server"
  /\ req[r].pc = "cooldown"
  /\ LET recent == SessionRecent(req[r].sessionId, now)
         timeSinceLastClaim == now - MostRecentAt(recent)
         minutesLeft == CeilDiv(Hour - timeSinceLastClaim, Minute)
     IN IF ~isConnected
        THEN Respond(r, 500, "error")
        ELSE IF recent # {}
        THEN req' = [req EXCEPT ![r] = [Finish(req[r], 400, "cooldown") EXCEPT
                                          !.minutes = minutesLeft]]
        ELSE req' = [req EXCEPT ![r].pc = "select", ![r].selectAt = now]
  /\ UNCHANGED <<conn, ui, stat, uniqueIndex, isConnected, fix, rev, hook, now, ticks, coupons, claims, stripe>>

\* Coupon.findOne(filter) without a sort: the first eligible coupon, or 404
ServerFindOne(r) ==
  /\ rev \in {"server", "dual"}
  /\ req[r].pc = "select"
  /\ LET elig == {i \in CouponIds : Available(coupons[i], req[r].selectAt)} IN
     IF elig = {}
     THEN req' = [req EXCEPT ![r] = [Finish(req[r], 404, "nocoupon") EXCEPT
                                       !.empty = TRUE]]
     ELSE LET i == CHOOSE i \in elig : \A j \in elig : i <= j IN
          req' = [req EXCEPT ![r].pc = "claim", ![r].docId = i,
                             ![r].loaded = coupons[i], ![r].doc = coupons[i],
                             ![r].claimedAt = now]
  /\ UNCHANGED <<conn, ui, stat, uniqueIndex, isConnected, fix, rev, hook, now, ticks, coupons, claims, stripe>>

\* Coupon.findByIdAndUpdate(_id, { $inc: { timesRedeemed: 1 } })
IncTimesRedeemed(c) == [c EXCEPT !.timesRedeemed = @ + 1]

ServerInc(r, ok) ==
  /\ rev \in {"server", "dual"}
  /\ req[r].pc = "inc"
  /\ IF ok
     THEN /\ coupons' = [coupons EXCEPT ![req[r].docId] = IncTimesRedeemed(@)]
          /\ req' = [req EXCEPT ![r] = [Finish(req[r], 200, "granted") EXCEPT
                                          !.granted = req[r].docId]]
     ELSE /\ Respond(r, 500, "error")
          /\ UNCHANGED coupons
  /\ UNCHANGED <<conn, ui, stat, uniqueIndex, isConnected, fix, rev, hook, now, ticks, claims, stripe>>

\* ------------------- POST /api/coupons/next, src/unnamed/part_006 (second file)
\* cookie middleware, then the handler up to its first await
DualStart(r, s, ip, up) ==
  /\ rev = "dual"
  /\ req[r].pc = "idle"
  /\ InOrder(r)
  /\ FirstUse(s, ip)
  /\ isConnected' = (isConnected \/ up)
  /\ LET sid == IF s = NoSession THEN FreshSession(r) ELSE s IN
     IF sid = NoSession
     THEN Respond(r, 400, "missing")
     ELSE req' = [req EXCEPT ![r].pc = "ipClaim", ![r].sessionId = sid,
                             ![r].ipAddress = ip, ![r].after = Answered,
                             ![r].oneHourAgo = now - Hour,
                             ![r].down = ~(isConnected \/ up)]
  /\ UNCHANGED <<conn, ui, stat, uniqueIndex, fix, rev, hook, now, ticks, coupons, claims, stripe>>

\* CouponClaim.findOne({ ipAddress, claimedAt: { $gt } }).sort({ claimedAt: -1 })
IPClaims(ip, since) ==
  {i \in ClaimIdx : claims[i].ipAddress = ip /\ claims[i].claimedAt > since}

\* CouponClaim.findOne({ sessionId, claimedAt: { $gt } }).sort({ claimedAt: -1 })
SessionClaims(s, since) ==
  {i \in ClaimIdx : claims[i].sessionId = s /\ claims[i].claimedAt > since}

\* the address query answers; the session query is sent
DualIPClaim(r) ==
  /\ rev = "dual"
  /\ req[r].pc = "ipClaim"
  /\ LET found == IPClaims(req[r].ipAddress, req[r].oneHourAgo) IN
     IF ~isConnected
     THEN Respond(r, 500, "error")
     ELSE req' = [req EXCEPT ![r].pc = "sessionClaim",
                             ![r].ipClaimAt = IF found = {} THEN Null
                                              ELSE MostRecentAt(found)]
  /\ UNCHANGED <<conn, ui, stat, uniqueIndex, isConnected, fix, rev, hook, now, ticks, coupons, claims, stripe>>

\* the session query answers: recentIPClaim || recentSessionClaim, 429 or on
DualSessionClaim(r) ==
  /\ rev = "dual"
  /\ req[r].pc = "sessionClaim"
  /\ LET found == SessionClaims(req[r].sessionId, req[r].oneHourAgo)
         mostRecentAt == IF req[r].ipClaimAt # Null THEN req[r].ipClaimAt
                         ELSE MostRecentAt(found)
         timeSinceLastClaim == now - mostRecentAt
         minutesLeft == CeilDiv(Hour - timeSinceLastClaim, Minute)
     IN IF req[r].ipClaimAt # Null \/ found # {}
        THEN req' = [req EXCEPT ![r] = [Finish(req[r], 429, "cooldown") EXCEPT
                                          !.minutes = minutesLeft]]
        ELSE req' = [req EXCEPT ![r].pc = "select", ![r].selectAt = now,
                                ![r].ipClaimAt = Null]
  /\ UNCHANGED <<conn, ui, stat, uniqueIndex, isConnected, fix, rev, hook, now, ticks, coupons, claims, stripe>>

\* ------------------------------- GET /api/coupons/next, the transaction revision
\* no cookie middleware in this revision: a request without a session is refused
TxnStart(r, s, ip, up) ==
  /\ rev = "txn"
  /\ req[r].pc = "idle"
  /\ InOrder(r)
  /\ FirstUse(s, ip)
  /\ isConnected' = (isConnected \/ up)
  /\ IF ~(isConnected \/ up)
     THEN req' = [req EXCEPT ![r] = [Finish(req[r], 503, "unavailable") EXCEPT
                                       !.sessionId = s, !.ipAddress = ip,
                                       !.down = TRUE]]
     ELSE IF s = NoSession
     THEN req' = [req EXCEPT ![r] = [Finish(req[r], 400, "missing") EXCEPT
                                       !.ipAddress = ip]]
     ELSE req' = [req EXCEPT ![r].pc = "cooldown", ![r].sessionId = s,
                             ![r].ipAddress = ip,
                             ![r].after = Answered,
                             ![r].oneHourAgo = now - Hour]
  /\ UNCHANGED <<conn, ui, stat, uniqueIndex, fix, rev, hook, now, ticks, coupons, claims, stripe>>

\* CouponClaim.findOne({ $or: [{ipAddress, claimedAt: {$gte}}, {sessionId, claimedAt: {$gte}}] })
LastClaims(s, ip, since) ==
  {i \in ClaimIdx : \/ claims[i].ipAddress = ip /\ claims[i].claimedAt >= since
                    \/ claims[i].sessionId = s /\ claims[i].claimedAt >= since}

TxnCooldown(r) ==
  /\ rev = "txn"
  /\ req[r].pc = "cooldown"
  /\ LET found == LastClaims(req[r].sessionId, req[r].ipAddress, req[r].oneHourAgo) IN
     IF found # {}
     THEN LET lastClaim == claims[CHOOSE i \in found : \A j \in found : i <= j]
              timeLeft == CeilDiv(lastClaim.claimedAt + Hour - now, Minute)
          IN req' = [req EXCEPT ![r] = [Finish(req[r], 429, "cooldown") EXCEPT
                                          !.minutes = timeLeft]]
     ELSE req' = [req EXCEPT ![r].pc = "existing"]
  /\ UNCHANGED <<conn, ui, stat, uniqueIndex, isConnected, fix, rev, hook, now, ticks, coupons, claims, stripe>>

\* CouponClaim.find({ $or: [{ipAddress}, {sessionId}] }).distinct('couponId')
TxnExisting(r) ==
  /\ rev = "txn"
  /\ req[r].pc = "existing"
  /\ req' = [req EXCEPT ![r].pc = "select",
                        ![r].excluded =
                          {claims[i].couponId :
                             i \in {j \in ClaimIdx :
                                      MatchesIdentity(claims[j], req[r].sessionId,
                                                      req[r].ipAddress)}}]
  /\ UNCHANGED <<conn, ui, stat, uniqueIndex, isConnected, fix, rev, hook, now, ticks, coupons, claims, stripe>>

\* Coupon.findOne({ _id: { $nin } }).sort({ lastAssignedAt: 1 }), or abort and 404
TxnFindOne(r) ==
  /\ rev = "txn"
  /\ req[r].pc = "select"
  /\ LET cand == CouponIds \ req[r].excluded IN
     IF cand = {}
     THEN Respond(r, 404, "nocoupon")
     ELSE LET i == CHOOSE i \in cand :
                     \A j \in cand :
                       \/ coupons[i].lastAssignedAt < coupons[j].lastAssignedAt
                       \/ coupons[i].lastAssignedAt = coupons[j].lastAssignedAt /\ i <= j
          IN req' = [req EXCEPT ![r].pc = "txnSave", ![r].docId = i,
                                ![r].loaded = coupons[i],
                                ![r].doc = [coupons[i] EXCEPT !.lastAssignedAt = now]]
  /\ UNCHANGED <<conn, ui, stat, uniqueIndex, isConnected, fix, rev, hook, now, ticks, coupons, claims, stripe>>

\* coupon.save({ session }): lastAssignedAt is no path of the Coupon schema, so
\* the save writes nothing; a failure aborts the transaction
TxnSave(r, ok) ==
  /\ rev = "txn"
  /\ req[r].pc = "txnSave"
  /\ IF ok
     THEN req' = [req EXCEPT ![r].pc = "claim", ![r].claimedAt = now]
     ELSE Respond(r, 500, "error")
  /\ UNCHANGED <<conn, ui, stat, uniqueIndex, isConnected, fix, rev, hook, now, ticks, coupons, claims, stripe>>

\* CouponClaim.create([...], { session }) and commitTransaction, or abortTransaction
TxnCommit(r, ok) ==
  /\ rev = "txn"
  /\ req[r].pc = "insert"
  /\ IF ok
     THEN /\ claims' = Append(claims, NewClaim(req[r]))
          /\ req' = [req EXCEPT ![r] = [Finish(req[r], 200, "granted") EXCEPT
                                          !.granted = req[r].docId,
                                          !.claim = Len(claims) + 1]]
     ELSE /\ Respond(r, 500, "error")
          /\ UNCHANGED claims
  /\ UNCHANGED <<conn, ui, stat, uniqueIndex, isConnected, fix, rev, hook, now, ticks, coupons, stripe>>

\* ------------- POST /api/coupons/next, src/index.js, the claims-only revision
\* cookie middleware (a request without a cookie is given a session), then the
\* handler up to its first await
ResetStart(r, s, ip) ==
  /\ rev = "reset"
  /\ req[r].pc = "idle"
  /\ InOrder(r)
  /\ FirstUse(s, ip)
  /\ req' = [req EXCEPT ![r].pc = "cooldown",
                        ![r].sessionId = IF s = NoSession THEN FreshSession(r) ELSE s,
                        ![r].ipAddress = ip,
                        ![r].after = Answered,
                        ![r].oneHourAgo = now - Hour]
  /\ UNCHANGED <<conn, ui, stat, uniqueIndex, isConnected, fix, rev, hook, now, ticks, coupons, claims, stripe>>

\* CouponClaim.find({ $or, claimedAt: { $gt: oneHourAgo } }).sort({ claimedAt: -1 })
ResetCooldown(r) ==
  /\ rev = "reset"
  /\ req[r].pc = "cooldown"
  /\ LET recentClaims == RecentClaims(req[r].sessionId, req[r].ipAddress,
                                      req[r].oneHourAgo) IN
     IF recentClaims # {}
     THEN LET timeLeft == CeilDiv(MostRecentAt(recentClaims) + Hour - now, Minute)
          IN req' = [req EXCEPT ![r] = [Finish(req[r], 429, "cooldown") EXCEPT
                                          !.minutes = timeLeft,
                                          !.retryAfter = timeLeft * Minute]]
     ELSE req' = [req EXCEPT ![r].pc = "existing"]
  /\ UNCHANGED <<conn, ui, stat, uniqueIndex, isConnected, fix, rev, hook, now, ticks, coupons, claims, stripe>>

\* CouponClaim.find({ $or: [{sessionId}, {ipAddress}] }).select('couponId')
ResetClaimed(r) ==
  /\ rev = "reset"
  /\ req[r].pc = "existing"
  /\ req' = [req EXCEPT ![r].pc = "select",
                        ![r].excluded =
                          {claims[i].couponId :
                             i \in {j \in ClaimIdx :
                                      MatchesIdentity(claims[j], req[r].sessionId,
                                                      req[r].ipAddress)}}]
  /\ UNCHANGED <<conn, ui, stat, uniqueIndex, isConnected, fix, rev, hook, now, ticks, coupons, claims, stripe>>

\* Coupon.find({ _id: { $nin: claimedCouponIds } })
ResetAvailable(r) ==
  /\ rev = "reset"
  /\ req[r].pc = "select"
  /\ LET availableCoupons == CouponIds \ req[r].excluded IN
     req' = [req EXCEPT ![r].pc = IF availableCoupons = {} THEN "deleteMany"
                                  ELSE "recent",
                        ![r].available = availableCoupons]
  /\ UNCHANGED <<conn, ui, stat, uniqueIndex, isConnected, fix, rev, hook, now, ticks, coupons, claims, stripe>>

\* CouponClaim.deleteMany({ claimedAt: { $lt: oneDayAgo } })
ResetDeleteMany(r) ==
  /\ rev = "reset"
  /\ req[r].pc = "deleteMany"
  /\ claims' = SelectSeq(claims, LAMBDA k : ~(k.claimedAt < now - Day))
  /\ req' = [req EXCEPT ![r].pc = "findAll"]
  /\ UNCHANGED <<conn, ui, stat, uniqueIndex, isConnected, fix, rev, hook, now, ticks, coupons, stripe>>

\* Coupon.find() after the reset, or 404
ResetFindAll(r) ==
  /\ rev = "reset"
  /\ req[r].pc = "findAll"
  /\ IF CouponIds = {}
     THEN req' = [req EXCEPT ![r] = [Finish(req[r], 404, "nocoupon") EXCEPT
                                       !.retryAfter = LongRetry]]
     ELSE req' = [req EXCEPT ![r].pc = "recent", ![r].available = CouponIds]
  /\ UNCHANGED <<conn, ui, stat, uniqueIndex, isConnected, fix, rev, hook, now, ticks, coupons, claims, stripe>>

\* CouponClaim.find({ claimedAt: { $gt: tenMinutesAgo } }), the filter, the 429
\* after the five-second wait, or the random choice among the eligible coupons
ResetRecent(r) ==
  /\ rev = "reset"
  /\ req[r].pc = "recent"
  /\ LET recentlyClaimedIds ==
           {claims[i].couponId : i \in {j \in ClaimIdx :
                                          claims[j].claimedAt > now - TenMinutes}}
         eligibleCoupons == req[r].available \ recentlyClaimedIds
     IN IF eligibleCoupons = {}
        THEN req' = [req EXCEPT ![r] = [Finish(req[r], 429, "inuse") EXCEPT
                                          !.retryAfter = LongRetry]]
        ELSE \E c \in eligibleCoupons :
               req' = [req EXCEPT ![r].pc = "claim", ![r].docId = c,
                                  ![r].claimedAt = now]
  /\ UNCHANGED <<conn, ui, stat, uniqueIndex, isConnected, fix, rev, hook, now, ticks, coupons, claims, stripe>>

\* CouponClaim.create({...}) and the 200 response, or the catch block's 500
ResetCreate(r, ok) ==
  /\ rev = "reset"
  /\ req[r].pc = "insert"
  /\ IF ok
     THEN /\ claims' = Append(claims, NewClaim(req[r]))
          /\ req' = [req EXCEPT ![r] = [Finish(req[r], 200, "granted") EXCEPT
                                          !.granted = req[r].docId,
                                          !.claim = Len(claims) + 1]]
     ELSE /\ req' = [req EXCEPT ![r] = [Finish(req[r], 500, "error") EXCEPT
                                          !.retryAfter = ShortRetry]]
          /\ UNCHANGED claims
  /\ UNCHANGED <<conn, ui, stat, uniqueIndex, isConnected, fix, rev, hook, now, ticks, coupons, stripe>>

\* ------------------- GET /api/coupons/next, the round-robin revision (part_007)
\* a seeded coupon of this revision: isAssigned and assignedAt take the
\* schema's defaults
RobinCoupon(i) == [code |-> <<"SEED", i>>, isAssigned |-> FALSE, assignedAt |-> Null]

\* sort: { assignedAt: 1, _id: 1 }: a missing assignedAt sorts first
RobinBefore(store, i, j) ==
  LET a == IF store[i].assignedAt = Null THEN Null ELSE store[i].assignedAt
      b == IF store[j].assignedAt = Null THEN Null ELSE store[j].assignedAt
  IN (a = Null /\ b # Null) \/ (a # Null /\ b # Null /\ a < b) \/ (a = b /\ i <= j)

\* the alternative pick: the first coupon of the pool, whatever its assignedAt
RobinPickFirst(store) ==
  IF DOMAIN store = {} THEN 0 ELSE CHOOSE i \in DOMAIN store : \A j \in DOMAIN store : i <= j

\* findOneAndUpdate({ isAssigned: false }, ..., { sort }) and, when it finds
\* nothing, findOneAndUpdate({}, ..., { sort }): the _id of the coupon, 0 for none
RobinPick(store) ==
  LET unassigned == {i \in DOMAIN store : ~store[i].isAssigned}
      cand == IF unassigned # {} THEN unassigned ELSE DOMAIN store
  IN IF cand = {} THEN 0
     ELSE CHOOSE i \in cand : \A j \in cand : RobinBefore(store, i, j)

\* the update of both findOneAndUpdate calls
RobinAssigned(c, at) == [c EXCEPT !.isAssigned = TRUE, !.assignedAt = at]

\* connection middleware and the handler's own check of the flag
RobinStart(r, s, ip, up) ==
  /\ rev = "robin"
  /\ req[r].pc = "idle"
  /\ InOrder(r)
  /\ FirstUse(s, ip)
  /\ isConnected' = (isConnected \/ up)
  /\ IF ~(isConnected \/ up)
     THEN req' = [req EXCEPT ![r] = [Finish(req[r], 503, "unavailable") EXCEPT
                                       !.sessionId = s, !.ipAddress = ip,
                                       !.down = TRUE]]
     ELSE req' = [req EXCEPT ![r].pc = "cooldown", ![r].sessionId = s,
                             ![r].ipAddress = ip,
                             ![r].after = Answered,
                             ![r].oneHourAgo = now - Hour]
  /\ UNCHANGED <<conn, ui, stat, uniqueIndex, fix, rev, hook, now, ticks, coupons, claims, stripe>>

\* CouponClaim.findOne({ $or: [...] }) and the 429
RobinCooldown(r) ==
  /\ rev = "robin"
  /\ req[r].pc = "cooldown"
  /\ LET found == LastClaims(req[r].sessionId, req[r].ipAddress, req[r].oneHourAgo) IN
     IF found # {}
     THEN LET lastClaim == claims[CHOOSE i \in found : \A j \in found : i <= j]
              timeLeft == CeilDiv(lastClaim.claimedAt + Hour - now, Minute)
          IN req' = [req EXCEPT ![r] = [Finish(req[r], 429, "cooldown") EXCEPT
                                          !.minutes = timeLeft]]
     ELSE req' = [req EXCEPT ![r].pc = "assign"]
  /\ UNCHANGED <<conn, ui, stat, uniqueIndex, isConnected, fix, rev, hook, now, ticks, coupons, claims, stripe>>

\* startSession, startTransaction and the findOneAndUpdate calls inside the
\* transaction: the update stays with the transaction until it commits; a
\* document another open transaction has updated is a write conflict, which
\* like any failure aborts the transaction and answers 500
RobinAssign(r, ok) ==
  /\ rev = "robin"
  /\ req[r].pc = "assign"
  /\ LET i == RobinPick(coupons)
         conflict == \E q \in Requests \ {r} :
                       req[q].pc \in {"claim", "insert"} /\ req[q].docId = i
     IN IF ~ok \/ (i # 0 /\ conflict)
        THEN Respond(r, 500, "error")
        ELSE IF i = 0
        THEN Respond(r, 404, "nocoupon")
        ELSE req' = [req EXCEPT ![r].pc = "claim", ![r].docId = i,
                                ![r].doc = RobinAssigned(coupons[i], now)]
  /\ UNCHANGED <<conn, ui, stat, uniqueIndex, isConnected, fix, rev, hook, now, ticks, coupons, claims, stripe>>

\* CouponClaim.create([...], { session }) with claimedAt's default, then
\* commitTransaction and the 200; sessionId is a required path
RobinCommit(r, ok) ==
  /\ rev = "robin"
  /\ req[r].pc = "insert"
  /\ IF ok /\ req[r].sessionId # NoSession
     THEN /\ claims' = Append(claims, [NewClaim(req[r]) EXCEPT !.claimedAt = now])
          /\ coupons' = [coupons EXCEPT ![req[r].docId] = req[r].doc]
          /\ req' = [req EXCEPT ![r] = [Finish(req[r], 200, "granted") EXCEPT
                                          !.granted = req[r].docId,
                                          !.claim = Len(claims) + 1]]
     ELSE /\ Respond(r, 500, "error")
          /\ UNCHANGED <<coupons, claims>>
  /\ UNCHANGED <<conn, ui, stat, uniqueIndex, isConnected, fix, rev, hook, now, ticks, stripe>>

\* ------------------------------------ GET /api/coupons/status, src/index.js
\* the cookie middleware skips this path; the connection middleware calls
\* connectToMongoDB when the flag is down; then the handler's own check
StatusStart(k) ==
  /\ stat[k].pc = "idle"
  /\ \A j \in Calls : j < k => stat[j].pc # "idle"
  /\ stat' = [stat EXCEPT ![k].pc = IF isConnected THEN "find" ELSE "connect"]
  /\ UNCHANGED <<conn, ui, uniqueIndex, isConnected, fix, rev, hook, now, ticks, coupons,
                 claims, stripe, req>>

\* connectToMongoDB(): mongoose.connect and the ping; a failure leaves the flag
\* down and the middleware answers 503
StatusConnect(k, up) ==
  /\ stat[k].pc = "connect"
  /\ isConnected' = (isConnected \/ up)
  /\ stat' = IF isConnected \/ up
             THEN [stat EXCEPT ![k].pc = "count"]
             ELSE [stat EXCEPT ![k].pc = "done", ![k].status = 503,
                               ![k].retryAfter = ShortRetry]
  /\ UNCHANGED <<conn, ui, uniqueIndex, fix, rev, hook, now, ticks, coupons, claims, stripe, req>>

\* Coupon.countDocuments() and, on an empty collection, seedCoupons(): the
\* coupon is created at the payment provider, or named LOCAL_<now> when that
\* fails, and saved
StatusSeed(k, stripeOk, ok) ==
  /\ stat[k].pc = "count"
  /\ LET code == IF stripeOk THEN <<"SAVE25", now>> ELSE <<"LOCAL", now>>
         coupon == [code |-> code, expiresAt |-> now + NinetyDays,
                    maxRedemptions |-> SeedMaxRedemptions, timesRedeemed |-> 0,
                    active |-> TRUE, createdAt |-> now, lastAssignedAt |-> Null]
     IN IF Len(coupons) = 0 /\ ok
        THEN /\ coupons' = <<coupon>>
             /\ stripe' = IF stripeOk THEN stripe \cup {code} ELSE stripe
        ELSE UNCHANGED <<coupons, stripe>>
  /\ stat' = [stat EXCEPT ![k].pc = "find"]
  /\ UNCHANGED <<conn, ui, uniqueIndex, isConnected, fix, rev, hook, now, ticks, claims, req>>

\* if (!isConnected) 503; Coupon.find(); oneDayAgo
StatusFind(k) ==
  /\ stat[k].pc = "find"
  /\ stat' = IF ~isConnected
             THEN [stat EXCEPT ![k].pc = "done", ![k].status = 503,
                               ![k].retryAfter = StatusRetry]
             ELSE [stat EXCEPT ![k].pc = "claims", ![k].found = coupons,
                               ![k].oneDayAgo = now - Day]
  /\ UNCHANGED <<conn, ui, uniqueIndex, isConnected, fix, rev, hook, now, ticks, coupons,
                 claims, stripe, req>>

\* coupons.map(...): the first of recentClaims that refers to the coupon
StatusOf(c, recentClaims, at) ==
  LET mine == {i \in 1..Len(recentClaims) : recentClaims[i].couponId = c}
      claimed == mine # {}
      first == CHOOSE i \in mine : \A j \in mine : i <= j
      isRecentlyClaimed == claimed /\ recentClaims[first].claimedAt > at - TenMinutes
  IN [claimed |-> claimed, available |-> ~isRecentlyClaimed,
      nextAvailable |-> IF isRecentlyClaimed
                        THEN recentClaims[first].claimedAt + TenMinutes ELSE Null]

\* CouponClaim.find({ claimedAt: { $gt: oneDayAgo } }).populate('couponId'),
\* the map over the coupons and res.json
StatusClaims(k) ==
  /\ stat[k].pc = "claims"
  /\ LET recentClaims == SelectSeq(claims, LAMBDA c : c.claimedAt > stat[k].oneDayAgo)
     IN stat' = [stat EXCEPT ![k].pc = "done", ![k].status = 200,
                             ![k].seen = claims, ![k].at = now,
                             ![k].body = [c \in 1..Len(stat[k].found) |->
                                            StatusOf(c, recentClaims, now)]]
  /\ UNCHANGED <<conn, ui, uniqueIndex, isConnected, fix, rev, hook, now, ticks, coupons,
                 claims, stripe, req>>

\* ------------------------------------- the store connection, per process
\* src/index.js (rev "main": connect, ping, count, seedCoupons; no connection
\* events), src/server/index.js (rev "server": connect, count; 'error' and
\* 'disconnected' handlers) and part_006 (rev "txn": connect, seedCoupons;
\* the same handlers)
Free(a) ==
  /\ conn.att[a].pc = "idle"
  /\ \A b \in Attempts : b < a => conn.att[b].pc # "idle"

\* what a handler that reads the flag is looking at: a connection that is
\* there, one whose loss has not been reported yet, or none
Observe(flag, c) ==
  IF ~flag THEN "refused"
  ELSE IF c.established THEN "ok"
  ELSE IF c.dropPending THEN "window" ELSE "stale"

\* connectToMongoDB returns to its caller: startServer goes on to app.listen,
\* the connection middleware goes on to the handler's check of the flag
Ended(c, a, flag) ==
  [c EXCEPT !.att[a] = IdleAttempt,
            !.listening = c.listening \/ c.att[a].origin = "startup",
            !.seen = IF c.att[a].origin = "request" THEN Observe(flag, c) ELSE c.seen]

\* a catch block that lowers the flag and schedules nothing
FailedNoRetry(c, a) == Ended([c EXCEPT !.failed = TRUE], a, FALSE)

\* the catch block: isConnected = false; setTimeout(connectToMongoDB, 5000);
\* failed remembers that an attempt failed or a disconnect was reported since
\* the flag was last raised
Failed(c, a) ==
  Ended([c EXCEPT !.timers = IF c.timers < MaxTimers THEN c.timers + 1 ELSE c.timers,
                  !.failed = TRUE],
        a, FALSE)

\* connectToMongoDB() called with the flag down, up to its first await
connectToMongoDB(c, a, origin) ==
  LET d == [c EXCEPT !.att[a] = [pc |-> "connect", origin |-> origin,
                                 code |-> <<"", 0>>]]
  IN IF ~c.uri THEN Failed(d, a) ELSE d

\* startServer: await connectToMongoDB(), then app.listen
ConnBoot ==
  /\ ~conn.booted
  /\ isConnected' = FALSE
  /\ conn' = connectToMongoDB([conn EXCEPT !.booted = TRUE], 1, "startup")
  /\ UNCHANGED <<rev, hook, now, ticks, coupons, claims, stripe, req, fix,
                 uniqueIndex, stat, ui>>

\* a request reaches the connection middleware: with the flag up it goes on to
\* the handler, which reads the flag; with the flag down it awaits connectToMongoDB
ConnRequest(a) ==
  /\ conn.listening
  /\ IF isConnected
     THEN /\ a = 1
          /\ conn' = [conn EXCEPT !.seen = Observe(TRUE, conn)]
     ELSE /\ Free(a)
          /\ conn' = connectToMongoDB(conn, a, "request")
  /\ UNCHANGED <<rev, hook, now, ticks, coupons, claims, stripe, req, fix,
                 isConnected, uniqueIndex, stat, ui>>

\* a retry timer fires: connectToMongoDB(), which returns at once when the flag is up
ConnTimer(a) ==
  /\ conn.timers > 0
  /\ LET c == [conn EXCEPT !.timers = conn.timers - 1] IN
     IF isConnected
     THEN a = 1 /\ conn' = c
     ELSE Free(a) /\ conn' = connectToMongoDB(c, a, "timer")
  /\ UNCHANGED <<rev, hook, now, ticks, coupons, claims, stripe, req, fix,
                 isConnected, uniqueIndex, stat, ui>>

\* mongoose.connection.on('disconnected'): isConnected = false; connectToMongoDB()
ConnDisconnected(a) ==
  /\ rev \in {"server", "txn"}
  /\ conn.dropPending
  /\ Free(a)
  /\ isConnected' = FALSE
  /\ conn' = connectToMongoDB([conn EXCEPT !.dropPending = FALSE, !.failed = TRUE],
                              a, "event")
  /\ UNCHANGED <<rev, hook, now, ticks, coupons, claims, stripe, req, fix,
                 uniqueIndex, stat, ui>>

\* mongoose.connection.on('error'): isConnected = false
ConnError ==
  /\ rev \in {"server", "txn"}
  /\ conn.opened /\ ~conn.established
  /\ isConnected
  /\ isConnected' = FALSE
  /\ UNCHANGED <<conn, rev, hook, now, ticks, coupons, claims, stripe, req, fix,
                 uniqueIndex, stat, ui>>

\* await mongoose.connect(uri) answers; the revisions without a ping raise the
\* flag right away
ConnConnect(a) ==
  /\ conn.att[a].pc = "connect"
  /\ IF conn.reachable
     THEN /\ conn' = [conn EXCEPT !.established = TRUE, !.opened = TRUE,
                                  !.dropPending = FALSE,
                                  !.failed = conn.failed /\ rev = "main",
                                  !.att[a].pc = CASE rev = "main" -> "ping"
                                                  [] rev = "server" -> "count"
                                                  [] OTHER -> "seedCount"]
          /\ isConnected' = (isConnected \/ rev # "main")
     ELSE /\ conn' = Failed(conn, a)
          /\ isConnected' = FALSE
  /\ UNCHANGED <<rev, hook, now, ticks, coupons, claims, stripe, req, fix,
                 uniqueIndex, stat, ui>>

\* await mongoose.connection.db.admin().ping(); isConnected = true
ConnPing(a) ==
  /\ rev = "main"
  /\ conn.att[a].pc = "ping"
  /\ IF conn.established
     THEN /\ conn' = [conn EXCEPT !.att[a].pc = "count", !.failed = FALSE]
          /\ isConnected' = TRUE
     ELSE /\ conn' = Failed(conn, a)
          /\ isConnected' = FALSE
  /\ UNCHANGED <<rev, hook, now, ticks, coupons, claims, stripe, req, fix,
                 uniqueIndex, stat, ui>>

\* await Coupon.countDocuments() inside connectToMongoDB
ConnCount(a) ==
  /\ rev \in {"main", "server"}
  /\ conn.att[a].pc = "count"
  /\ IF ~conn.established
     THEN /\ conn' = Failed(conn, a)
          /\ isConnected' = FALSE
     ELSE /\ conn' = IF rev = "main" /\ Len(coupons) = 0
                     THEN [conn EXCEPT !.att[a].pc = "seedCount"]
                     ELSE Ended(conn, a, isConnected)
          /\ UNCHANGED isConnected
  /\ UNCHANGED <<rev, hook, now, ticks, coupons, claims, stripe, req, fix,
                 uniqueIndex, stat, ui>>

\* seedCoupons: await Coupon.countDocuments(); its catch block swallows a failure
ConnSeedCount(a) ==
  /\ rev \in {"main", "txn"}
  /\ conn.att[a].pc = "seedCount"
  /\ conn' = IF conn.established /\ Len(coupons) = 0
             THEN [conn EXCEPT !.att[a].pc = IF rev = "main" THEN "stripe"
                                             ELSE "insert"]
             ELSE Ended(conn, a, isConnected)
  /\ UNCHANGED <<rev, hook, now, ticks, coupons, claims, stripe, req, fix,
                 isConnected, uniqueIndex, stat, ui>>

\* seedCoupons of src/index.js: stripe.coupons.create({ id: SAVE25_<now> }), or
\* the local fallback LOCAL_<now>
ConnStripe(a, stripeOk) ==
  /\ rev = "main"
  /\ conn.att[a].pc = "stripe"
  /\ LET created == stripeOk /\ <<"SAVE25", now>> \notin stripe
         code == IF created THEN <<"SAVE25", now>> ELSE <<"LOCAL", now>>
     IN /\ stripe' = IF created THEN stripe \cup {code} ELSE stripe
        /\ conn' = [conn EXCEPT !.att[a].pc = "save", !.att[a].code = code]
  /\ UNCHANGED <<rev, hook, now, ticks, coupons, claims, req, fix,
                 isConnected, uniqueIndex, stat, ui>>

\* the seed document of src/index.js
SeedDoc(code, at) ==
  [code |-> code, expiresAt |-> at + NinetyDays,
   maxRedemptions |-> SeedMaxRedemptions, timesRedeemed |-> 0,
   active |-> TRUE, createdAt |-> at, lastAssignedAt |-> Null]

\* seedCoupons of src/index.js: await coupon.save(); a failure is swallowed
ConnSave(a, ok) ==
  /\ rev = "main"
  /\ conn.att[a].pc = "save"
  /\ LET code == conn.att[a].code
         dup == uniqueIndex /\ \E i \in CouponIds : coupons[i].code = code
     IN coupons' = IF ok /\ conn.established /\ ~dup
                   THEN Append(coupons, SeedDoc(code, now))
                   ELSE coupons
  /\ conn' = Ended(conn, a, isConnected)
  /\ UNCHANGED <<rev, hook, now, ticks, claims, stripe, req, fix,
                 isConnected, uniqueIndex, stat, ui>>

\* the five seed documents of part_006
SeedSet == [i \in 1..SeedSize |-> SeedCoupon(i, Null)]

\* seedCoupons of part_006: await Coupon.insertMany(coupons), ordered; a
\* failure is swallowed
ConnInsertMany(a, ok) ==
  /\ rev = "txn"
  /\ conn.att[a].pc = "insert"
  /\ LET dup == uniqueIndex /\ \E i \in CouponIds : coupons[i].code = SeedSet[1].code
     IN coupons' = IF ok /\ conn.established /\ ~dup
                   THEN coupons \o SeedSet
                   ELSE coupons
  /\ conn' = Ended(conn, a, isConnected)
  /\ UNCHANGED <<rev, hook, now, ticks, claims, stripe, req, fix,
                 isConnected, uniqueIndex, stat, ui>>

\* the store goes away: an open connection is lost, and mongoose will emit
\* 'disconnected' once it notices
StoreDown ==
  /\ conn.reachable
  /\ conn' = [conn EXCEPT !.reachable = FALSE, !.established = FALSE,
                          !.dropPending = conn.dropPending
                                           \/ (conn.established /\ rev # "main")]
  /\ UNCHANGED <<rev, hook, now, ticks, coupons, claims, stripe, req, fix,
                 isConnected, uniqueIndex, stat, ui>>

\* the store comes back: the driver re-establishes a connection it had opened
StoreUp ==
  /\ ~conn.reachable
  /\ conn' = [conn EXCEPT !.reachable = TRUE, !.established = conn.opened]
  /\ UNCHANGED <<rev, hook, now, ticks, coupons, claims, stripe, req, fix,
                 isConnected, uniqueIndex, stat, ui>>

\* ------------------------------------------------ the front-end, App.tsx
\* the check of lastClaimTime at the top of claimCoupon, on the values the
\* closure captured when the component last rendered before the click
LocalCooldown(u) ==
  u.seenLastClaimTime # Null /\ now - u.seenLastClaimTime < Hour

\* onClick={() => claimCoupon(false)}: the closure of the current render,
\* setRetries(0), the local cooldown check, then fetch
Click ==
  /\ ui.pc \in {"idle", "done"}
  /\ LET u == [ui EXCEPT !.seenRetries = ui.retries,
                         !.seenLastClaimTime = ui.lastClaimTime,
                         !.retries = 0, !.sent = 0, !.delay = 0, !.retried = {},
                         !.error = FALSE]
     IN ui' = IF LocalCooldown(u)
              THEN [u EXCEPT !.pc = "done", !.error = TRUE]
              ELSE [u EXCEPT !.pc = "fetch", !.sent = 1]
  /\ UNCHANGED <<conn, stat, uniqueIndex, isConnected, fix, rev, hook, now, ticks, coupons,
                 claims, stripe, req>>

\* the answers a server of this repository gives: status and retryAfter
\* (0: the body carries none)
Answers ==
  {<<200, 0>>, <<400, 0>>, <<404, 0>>, <<429, Minute>>, <<429, 0>>,
   <<500, ShortRetry>>, <<500, 0>>, <<503, ShortRetry>>, <<503, 0>>}

\* the response arrives: the coupon is shown, or a retry is scheduled with
\* setTimeout(..., retryAfter * 1000), or the error is shown
Response(status, retryAfter) ==
  /\ ui.pc = "fetch"
  /\ ui' = IF status = 200
           THEN [ui EXCEPT !.pc = "done", !.coupon = TRUE, !.lastClaimTime = now]
           ELSE IF /\ ui.seenRetries < MAX_RETRIES
                   /\ status \in {500, 503, 429}
                   /\ retryAfter # 0
                THEN [ui EXCEPT !.pc = "wait", !.delay = retryAfter,
                                !.retried = @ \cup {<<status, retryAfter>>},
                                !.error = TRUE]
                ELSE [ui EXCEPT !.pc = "done", !.error = TRUE]
  /\ UNCHANGED <<conn, stat, uniqueIndex, isConnected, fix, rev, hook, now, ticks, coupons,
                 claims, stripe, req>>

\* the timer fires: setRetries(prev => prev + 1) and claimCoupon(true), the
\* same closure as before, so the retries and lastClaimTime it reads are the
\* ones captured at the click
RetryTimeout ==
  /\ ui.pc = "wait"
  /\ ui.sent < MaxSent
  /\ LET u == [ui EXCEPT !.retries = @ + 1] IN
     ui' = IF LocalCooldown(u)
           THEN [u EXCEPT !.pc = "done", !.error = TRUE]
           ELSE [u EXCEPT !.pc = "fetch", !.sent = @ + 1, !.error = FALSE]
  /\ UNCHANGED <<conn, stat, uniqueIndex, isConnected, fix, rev, hook, now, ticks, coupons,
                 claims, stripe, req>>

\* ------------------------------------------------------------ fix-coupon.js
\* Coupon.findOne({ code: 'SAVE10' }), then the assignments to the script's copy
FixFindOne ==
  /\ fix.pc = "idle"
  /\ LET found == {i \in CouponIds : coupons[i].code = SAVE10}
         fields == [code |-> SAVE10, expiresAt |-> now + NinetyDays,
                    maxRedemptions |-> SeedMaxRedemptions, timesRedeemed |-> 0,
                    active |-> TRUE, createdAt |-> now, lastAssignedAt |-> Null]
     IN IF found = {}
        THEN fix' = [pc |-> "save", docId |-> 0, loaded |-> NoDoc, doc |-> fields]
        ELSE LET i == CHOOSE i \in found : TRUE IN
             fix' = [pc |-> "save", docId |-> i, loaded |-> coupons[i],
                     doc |-> [fields EXCEPT !.createdAt = coupons[i].createdAt]]
  /\ UNCHANGED <<conn, ui, stat, uniqueIndex, isConnected, rev, hook, now, ticks, coupons, claims, stripe, req>>

\* save() of the script's copy: $set of the paths whose value the script changed
FixModified(stored, loaded, local) ==
  [stored EXCEPT
     !.expiresAt = IF local.expiresAt # loaded.expiresAt
                   THEN local.expiresAt ELSE stored.expiresAt,
     !.maxRedemptions = IF local.maxRedemptions # loaded.maxRedemptions
                        THEN local.maxRedemptions ELSE stored.maxRedemptions,
     !.timesRedeemed = IF local.timesRedeemed # loaded.timesRedeemed
                       THEN local.timesRedeemed ELSE stored.timesRedeemed,
     !.active = IF local.active # loaded.active THEN local.active ELSE stored.active]

\* newCoupon.save() or coupon.save(); an error is logged and the script ends
FixSave(ok) ==
  /\ fix.pc = "save"
  /\ LET dup == uniqueIndex /\ \E i \in CouponIds : coupons[i].code = SAVE10 IN
     coupons' = IF ~ok THEN coupons
                ELSE IF fix.docId = 0
                     THEN IF dup THEN coupons
                          ELSE Append(coupons, [fix.doc EXCEPT !.createdAt = now])
                     ELSE [coupons EXCEPT
                             ![fix.docId] = FixModified(@, fix.loaded, fix.doc)]
  /\ fix' = [IdleFix EXCEPT !.pc = "done"]
  /\ UNCHANGED <<conn, ui, stat, uniqueIndex, isConnected, rev, hook, now, ticks, claims, stripe, req>>

\* ------------------------------------------------- create-simple-coupon
\* createSimpleCoupon(): new Coupon({code: 'SAVE10', ...}).save() with no
\* lookup first; the script's schema declares no index, so only an index that
\* is already in the store rejects the second SAVE10
createSimpleCoupon(ok) ==
  /\ Len(coupons) < MaxCoupons
  /\ LET dup == uniqueIndex /\ \E i \in CouponIds : coupons[i].code = SAVE10
         coupon == [code |-> SAVE10, expiresAt |-> now + NinetyDays,
                    maxRedemptions |-> SeedMaxRedemptions, timesRedeemed |-> 0,
                    active |-> TRUE, createdAt |-> now, lastAssignedAt |-> Null]
     IN coupons' = IF ok /\ ~dup THEN Append(coupons, coupon) ELSE coupons
  /\ UNCHANGED <<conn, ui, stat, uniqueIndex, isConnected, fix, rev, hook, now, ticks, claims, stripe, req>>

\* the server's Coupon model builds the index its schema declares when it
\* connects; the build fails on a collection that already holds a duplicate
EnsureIndexes ==
  /\ ~uniqueIndex
  /\ uniqueIndex' = (\A i, j \in CouponIds : i # j => coupons[i].code # coupons[j].code)
  /\ UNCHANGED <<conn, ui, stat, isConnected, fix, rev, hook, now, ticks, coupons, claims, stripe, req>>

\* a store with two earlier claims, half an hour apart
LedgerAt == Hour \div 2

Ledger ==
  << [sessionId |-> 1, ipAddress |-> "ip1", couponId |-> 1, claimedAt |-> 0],
     [sessionId |-> 2, ipAddress |-> "ip2", couponId |-> 1, claimedAt |-> LedgerAt] >>

\* ------------------------------------------------------------- properties
ClaimsOf(c) == {i \in ClaimIdx : claims[i].couponId = c}

RECURSIVE SumRedeemed(_)
SumRedeemed(n) == IF n = 0 THEN 0 ELSE coupons[n].timesRedeemed + SumRedeemed(n - 1)

\* the revisions whose claim path keeps the redemption counter
Counting == rev \in {"main", "server", "dual"}

\* the requests that have arrived carry pairwise different sessions and addresses
DistinctIdentities ==
  \A r, q \in Requests :
    (r # q /\ req[r].pc # "idle" /\ req[q].pc # "idle") =>
      /\ req[r].sessionId # req[q].sessionId
      /\ req[r].ipAddress # req[q].ipAddress

\* C1: under claim requests of distinct identities a coupon with a redemption
\* bound never has more claim records than the bound
C1_NoOverRedemption ==
  (Counting /\ DistinctIdentities) =>
    \A c \in CouponIds :
      coupons[c].maxRedemptions # Null =>
        Cardinality(ClaimsOf(c)) <= coupons[c].maxRedemptions

\* C2: in every state a coupon's timesRedeemed is the number of its claim records
C2_CounterMatchesLedger ==
  Counting =>
    \A c \in CouponIds : coupons[c].timesRedeemed = Cardinality(ClaimsOf(c))

\* C3: a request that arrives less than an hour after a claim granted to its
\* session or to its address is answered with the cooldown rejection
C3_CooldownBySessionOrAddress ==
  \A a, b \in Requests :
    (/\ a \in req[b].after
     /\ req[a].outcome = "granted"
     /\ MatchesIdentity(req[a], req[b].sessionId, req[b].ipAddress)
     /\ (req[b].oneHourAgo + Hour) - claims[req[a].claim].claimedAt < Hour
     /\ req[b].pc = "done")
      => req[b].outcome = "cooldown" /\ req[b].claim = 0

\* C4: one identity never has two claim records less than an hour apart; stated
\* for the revision that has no rate limiter in front of the handler, with the
\* pre('save') check on the claim schema
C4_OneClaimPerIdentity ==
  (hook /\ rev = "server") =>
    \A i, j \in ClaimIdx :
      (i < j /\ claims[i].sessionId = claims[j].sessionId
             /\ claims[i].ipAddress = claims[j].ipAddress) =>
        claims[j].claimedAt - claims[i].claimedAt >= Hour

\* C5: a request that ended in a store failure left no claim record behind
C5_FailedRequestLeavesNoClaim ==
  \A r \in Requests : req[r].outcome = "error" => req[r].claim = 0

\* the pool of the no-exhaustion scenario: every coupon far from its bound
AmplePool ==
  /\ coupons # <<>>
  /\ \A c \in CouponIds : coupons[c].maxRedemptions = SeedMaxRedemptions

\* C6: when every request was granted a coupon of the seeded pool, the
\* redemption counters add up to the number of requests
C6_NoLostIncrement ==
  (/\ Counting
   /\ AmplePool
   /\ DistinctIdentities
   /\ \A r \in Requests : req[r].outcome = "granted" /\ req[r].minted = 0)
    => SumRedeemed(Len(coupons)) = NumReq

\* C7: a request that arrives when every other request has been answered is
\* rejected for cooldown only if some claim by its session or its address was
\* less than an hour old when it arrived
C7_AllowedAtCooldown ==
  \A r \in Requests :
    (req[r].outcome = "cooldown" /\ Requests \ {r} \subseteq req[r].after) =>
      \E i \in ClaimIdx :
        /\ MatchesIdentity(claims[i], req[r].sessionId, req[r].ipAddress)
        /\ (req[r].oneHourAgo + Hour) - claims[i].claimedAt < Hour

\* C8: a coupon whose redemptions reached its bound is inactive
C8_ExhaustedIsInactive ==
  \A c \in CouponIds :
    (coupons[c].maxRedemptions # Null
       /\ coupons[c].timesRedeemed >= coupons[c].maxRedemptions)
      => ~coupons[c].active

\* the pool of the one-redemption scenario: a single coupon, bound 1
SingleUsePool == coupons # <<>> /\ coupons[1].maxRedemptions = 1

\* C9: in the one-redemption scenario the claimed coupon ends redeemed once and
\* inactive, and a request that arrives after that claim was answered and is
\* served is granted a coupon it minted, not the exhausted one
C9_ExhaustedThenMint ==
  (Counting /\ SingleUsePool) =>
    \A a \in Requests :
      req[a].granted = 1 =>
        /\ coupons[1].timesRedeemed = 1
        /\ ~coupons[1].active
        /\ \A b \in Requests :
             (a \in req[b].after /\ req[b].pc = "done"
                /\ req[b].outcome \notin {"cooldown", "error"}) =>
               /\ req[b].outcome = "granted"
               /\ req[b].granted # 1
               /\ req[b].granted = req[b].minted

\* C10: a request that found no eligible coupon ends granted the one coupon it
\* created, with its claim recorded
C10_MintWhenPoolEmpty ==
  \A r \in Requests :
    (req[r].pc = "done" /\ req[r].empty) =>
      /\ req[r].outcome = "granted"
      /\ req[r].minted # 0
      /\ req[r].granted = req[r].minted
      /\ req[r].claim # 0

\* C11: no step of the system lowers a coupon's timesRedeemed
C11_CounterNeverDecreases ==
  [][\A c \in CouponIds : coupons'[c].timesRedeemed >= coupons[c].timesRedeemed]_vars

\* the requests that were answered with coupon c
GrantedTo(c) == {r \in Requests : req[r].granted = c}

\* C12: a request that lost the race for the last redemption of a coupon is not
\* answered with that coupon: a bounded coupon is granted to no more requests
\* than its bound
C12_RaceLoserNotGranted ==
  (rev = "main" /\ DistinctIdentities) =>
    \A c \in CouponIds :
      coupons[c].maxRedemptions # Null =>
        Cardinality(GrantedTo(c)) <= coupons[c].maxRedemptions

\* the requests that arrived without a sessionId cookie
NoCookie == {r \in Requests : req[r].pc # "idle" /\ req[r].sessionId \notin Sessions}

\* C13: a request that carried no session cookie records no claim and is
\* granted no coupon
C13_NoCookieRejected ==
  rev = "main" =>
    \A r \in NoCookie : req[r].claim = 0 /\ req[r].granted = 0

\* C14: the coupon a request is answered with is, in the store at the moment
\* of the answer, active, unexpired and not exhausted
C14_GrantedIsEligible ==
  [][\A r \in Requests :
       (req[r].outcome # "granted" /\ req'[r].outcome = "granted"
          /\ req'[r].granted \in CouponIds) =>
         Available(coupons[req'[r].granted], now)]_vars

\* the claims less than an hour old, at the arrival of r, by r's session or address
Matching(r) == RecentClaims(req[r].sessionId, req[r].ipAddress, req[r].oneHourAgo)

\* the step in which request r is answered with the cooldown rejection
Rejects(r) == req[r].pc # "done" /\ req'[r].outcome = "cooldown"

\* C15: the minutes a cooldown rejection reports are
\* ceil((claimedAt + 60 min - now) / 1 min), claimedAt being the latest claim
\* that matches the request's session or address
C15_MinutesRemaining ==
  [][\A r \in Requests :
       (Rejects(r) /\ Matching(r) # {}) =>
         req'[r].minutes = CeilDiv(MostRecentAt(Matching(r)) + Hour - now, Minute)]_vars

\* C16: in the revision that looks the session and the address up separately,
\* when a claim of the session and a claim of the address are both recent, the
\* reported wait is counted from the later of the two
C16_LaterOfSessionAndAddress ==
  [][\A r \in Requests :
       (/\ rev = "dual"
        /\ Rejects(r)
        /\ SessionClaims(req[r].sessionId, req[r].oneHourAgo) # {}
        /\ IPClaims(req[r].ipAddress, req[r].oneHourAgo) # {}) =>
         LET bySession == MostRecentAt(SessionClaims(req[r].sessionId, req[r].oneHourAgo))
             byAddress == MostRecentAt(IPClaims(req[r].ipAddress, req[r].oneHourAgo))
             later == IF bySession > byAddress THEN bySession ELSE byAddress
         IN req'[r].minutes = CeilDiv(later + Hour - now, Minute)]_vars

\* C17: a cooldown rejection is a 429 whose retry hint is the reported wait in
\* seconds, and an unavailable store is a 503 with a retry hint
C17_RetryableStatus ==
  \A r \in Requests :
    /\ req[r].outcome = "cooldown" =>
         req[r].status = 429 /\ req[r].retryAfter = req[r].minutes * Minute
    /\ req[r].outcome = "unavailable" =>
         req[r].status = 503 /\ req[r].retryAfter > 0

\* C18: a request that found the connection down and could not restore it is
\* answered 503 at once, before any query is sent to the store
C18_DownIsUnavailable ==
  \A r \in Requests :
    req[r].down => req[r].pc = "done" /\ req[r].status = 503

\* C19: a mint whose remote creation failed is carried through with its local
\* code: for requests of distinct visitors the save of the locally coded coupon
\* is not refused for that code
C19_LocalFallbackGranted ==
  [][\A r \in Requests :
       (DistinctIdentities /\ req[r].pc = "saveNew"
          /\ req[r].doc.code[1] = "LOCAL" /\ req'[r].pc = "done") =>
         req'[r].outcome # "duplicate"]_vars

\* C20: no claim request of distinct visitors fails on a code collision, and
\* requests that minted were granted coupons with different codes
C20_CollisionRetried ==
  DistinctIdentities =>
    /\ \A r \in Requests : req[r].outcome # "duplicate"
    /\ \A r, q \in Requests :
         (r # q /\ req[r].minted # 0 /\ req[q].minted # 0) =>
           coupons[req[r].minted].code # coupons[req[q].minted].code

\* C21: no two coupons in the store carry the same code, whatever sequence of
\* seeding, on-demand minting and maintenance-script runs produced the store
C21_CodesAreUnique ==
  \A i, j \in CouponIds : i # j => coupons[i].code # coupons[j].code

\* couponLimiter: one request per address per hour reaches the claim handler
AdmittedByLimiter ==
  \A q, r \in Requests :
    (q < r /\ req[q].pc # "idle" /\ req[r].pc # "idle"
       /\ req[q].ipAddress = req[r].ipAddress)
      => req[r].oneHourAgo >= req[q].oneHourAgo + Hour

\* C22: a claim record, once created, is never modified or deleted by a step
\* of the claim path: every step (of requests the request limiter admits)
\* leaves the existing records in place and at most appends new ones
C22_ClaimsOnlyGrow ==
  [][AdmittedByLimiter => /\ Len(claims') >= Len(claims)
                          /\ \A i \in ClaimIdx : claims'[i] = claims[i]]_vars

\* C23: two status calls that read the same coupons and the same claim
\* records (no claim was committed between them) answer with the same claimed
\* and available value for every coupon, whatever time passed between them
C23_StatusRepeats ==
  \A a, b \in Calls :
    (/\ stat[a].status = 200 /\ stat[b].status = 200
     /\ stat[a].found = stat[b].found
     /\ stat[a].seen = stat[b].seen)
      => \A c \in 1..Len(stat[a].found) :
           /\ stat[a].body[c].claimed = stat[b].body[c].claimed
           /\ stat[a].body[c].available = stat[b].body[c].available

\* C24: a step of a status call leaves every coupon record and every claim
\* record as it was
C24_StatusChangesNothing ==
  [][stat' # stat => UNCHANGED <<coupons, claims>>]_vars

\* timesRedeemed has reached maxRedemptions
Exhausted(c) == Truthy(c.maxRedemptions) /\ c.timesRedeemed >= c.maxRedemptions

\* C25: selection does not hand out the same coupon every time: by the time a
\* coupon is exhausted while another coupon is still eligible, claims by
\* distinct identities have been granted at least two different coupons
C25_SelectionVaries ==
  (DistinctIdentities /\ rev = "server") =>
    \A c \in CouponIds :
      (/\ Exhausted(coupons[c])
       /\ \E d \in CouponIds \ {c} : Available(coupons[d], now))
        => \E d \in CouponIds \ {c} : ClaimsOf(d) # {}

\* C26: one click makes the front-end send at most MAX_RETRIES + 1 claim
\* requests, and it retries only answers 500, 503 or 429 that carry retryAfter
C26_BoundedRetries ==
  /\ ui.sent <= MAX_RETRIES + 1
  /\ \A a \in ui.retried : a[1] \in {500, 503, 429} /\ a[2] # 0

\* the steps of request r's handler after the request was accepted
HandlerStep(r) ==
  \/ MainCooldown(r)
  \/ MainFindAvailable(r)
  \/ MainThrows(r)
  \/ \E ok \in BOOLEAN : MainStripe(r, ok)
  \/ \E ok \in BOOLEAN : MainSaveNew(r, ok)
  \/ PreSave(r)
  \/ \E ok \in BOOLEAN : InsertClaim(r, ok)
  \/ \E ok \in BOOLEAN : MainSave(r, ok)

\* the statuses of the terminal outcomes: granted, missing identity, no coupon,
\* cooldown, internal error, unavailable
TerminalStatus == {200, 400, 404, 429, 500, 503}

\* C27: a request the server has started to handle has sent no response until
\* it ends and exactly one, with one terminal status, when it has ended; and,
\* every store and provider call returning or failing, it does end
C27_OneResponse ==
  /\ [](\A r \in Requests :
          /\ req[r].responses = IF req[r].pc = "done" THEN 1 ELSE 0
          /\ req[r].pc = "done" => req[r].status \in TerminalStatus)
  /\ \A r \in Requests : (req[r].pc # "idle") ~> (req[r].pc = "done")

\* both requests have ended, one with a coupon and one with an error
C27_Witness ==
  \E r, q \in Requests :
    /\ req[r].pc = "done" /\ req[r].status = 200 /\ req[r].responses = 1
    /\ req[q].pc = "done" /\ req[q].status \in {429, 500, 503} /\ req[q].responses = 1

\* C28: the step that rejects a request for cooldown leaves the coupons, the
\* claim records and the provider's coupons as they were, and the rejected
\* request has created no coupon and no claim record before it
C28_CooldownChangesNothing ==
  [][\A r \in Requests :
       (req'[r].outcome = "cooldown" /\ req[r].outcome # "cooldown") =>
         /\ UNCHANGED <<coupons, claims, stripe>>
         /\ req'[r].minted = 0 /\ req'[r].claim = 0 /\ req'[r].granted = 0]_vars

\* a request was rejected for cooldown while another request's claim was added
C28_Witness ==
  \E r, q \in Requests :
    /\ req[r].pc = "done" /\ req[r].outcome = "cooldown"
    /\ req[q].pc = "done" /\ req[q].claim # 0
    /\ Len(claims) > Len(Ledger)

\* C29: once a request that minted a coupon has ended, a claim record of that
\* request refers to the minted coupon
C29_MintedIsClaimed ==
  \A r \in Requests :
    (req[r].pc = "done" /\ req[r].minted # 0) =>
      /\ req[r].claim \in ClaimIdx
      /\ claims[req[r].claim].couponId = req[r].minted

\* C30: isValid and the findAvailable filter give the same verdict on every
\* stored coupon at every time
C30_ValidIffAvailable ==
  \A i \in CouponIds : isValid(coupons[i], now) <=> Available(coupons[i], now)

\* C31: a cooldown rejection reports a remaining wait of at least 1 and at
\* most 60 minutes, also when the clock advances while the recent-claims
\* query is outstanding (for a request that the request limiter admits: no
\* claim came from its address)
C31_WaitWithinTheHour ==
  \A r \in Requests :
    (/\ rev \in {"main", "server"} /\ req[r].outcome = "cooldown"
     /\ AdmittedByLimiter
     /\ \A i \in ClaimIdx : claims[i].ipAddress # req[r].ipAddress) =>
      req[r].minutes >= 1 /\ req[r].minutes <= Hour \div Minute

\* C32: in a status response a coupon is unavailable, with a nextAvailable
\* time, exactly when some claim record of it is less than ten minutes old
C32_UnavailableIffRecentClaim ==
  \A k \in Calls :
    stat[k].status = 200 =>
      \A c \in 1..Len(stat[k].found) :
        LET recent == \E i \in 1..Len(stat[k].seen) :
                        /\ stat[k].seen[i].couponId = c
                        /\ stat[k].seen[i].claimedAt > stat[k].at - TenMinutes
        IN /\ ~stat[k].body[c].available <=> recent
           /\ stat[k].body[c].nextAvailable # Null <=> recent

\* C33: in the claims-only revision no identity is granted a coupon it has
\* claimed before: a request that began after an earlier request of the same
\* session or address had been answered with a coupon is granted another one
C33_NeverTheSameCouponAgain ==
  \A r \in Requests : \A r0 \in req[r].after :
    (/\ rev = "reset" /\ AdmittedByLimiter
     /\ req[r].outcome = "granted" /\ req[r0].outcome = "granted"
     /\ (req[r0].sessionId = req[r].sessionId \/ req[r0].ipAddress = req[r].ipAddress))
      => req[r].granted # req[r0].granted

\* C34: in the claims-only revision a coupon claimed within the last ten
\* minutes is not granted to another request: no coupon has two claim records
\* less than ten minutes apart, concurrent requests of different identities
\* included
C34_TenMinutesApart ==
  (rev = "reset" /\ DistinctIdentities) =>
    \A i, j \in ClaimIdx :
      (i < j /\ claims[i].couponId = claims[j].couponId)
        => claims[j].claimedAt >= claims[i].claimedAt + TenMinutes

\* C35: in the round-robin revision sequential granted claims, each sent at a
\* later clock reading than the grant before it, receive the coupons in
\* rotation: a coupon never assigned goes first, and between two grants of
\* one coupon every other coupon of the pool is granted exactly once
RobinSequential ==
  \A q, r \in Requests :
    (q < r /\ req[q].outcome = "granted" /\ req[r].pc # "idle")
      => req[r].oneHourAgo + Hour > claims[req[q].claim].claimedAt

C36_SeededOnce ==
  IF conn.initial > 0
  THEN Len(coupons) = conn.initial
  ELSE Len(coupons) <= (IF rev = "main" THEN 1 ELSE SeedSize)

\* C37: with MONGODB_URI defined and the store in the end reachable for
\* good, a failed connection attempt or a reported disconnect is always
\* followed by the flag being raised again
C37_ReconnectsInTheEnd ==
  (conn.uri /\ <>[]conn.reachable) => [](conn.failed => <>isConnected)

\* C37 witness: the flag is up again while the retry timer of a failed attempt
\* is still pending
C37_Witness == conn.uri /\ isConnected /\ conn.timers > 0 /\ conn.reachable

\* C38: at most one connection attempt is in progress or scheduled in a
\* process (MONGODB_URI being defined): the calls of connectToMongoDB that have not returned and the
\* pending retry timers together never number more than one
C38_OneAttemptAtATime ==
  conn.uri =>
    Cardinality({a \in Attempts : conn.att[a].pc # "idle"}) + conn.timers <= 1

\* C39: a handler that finds isConnected true has a connection: no request
\* passes the flag while the connection is gone and its loss is not merely
\* waiting to be reported
C39_FlagMeansConnected == conn.seen # "stale"

Inputs == Sessions \cup {NoSession}

Next ==
  \/ \E d \in TickSteps : Tick(d)
  \/ \E r \in Requests, s \in Inputs, ip \in IPs, up \in BOOLEAN :
       MainStart(r, s, ip, up)
  \/ \E r \in Requests : MainCooldown(r)
  \/ \E r \in Requests : MainFindAvailable(r)
  \/ \E r \in Requests, ok \in BOOLEAN : MainStripe(r, ok)
  \/ \E r \in Requests, ok \in BOOLEAN : MainSaveNew(r, ok)
  \/ \E r \in Requests : PreSave(r)
  \/ \E r \in Requests, ok \in BOOLEAN : InsertClaim(r, ok)
  \/ \E r \in Requests, ok \in BOOLEAN : MainSave(r, ok)
  \/ \E r \in Requests, s \in Inputs, ip \in IPs, up \in BOOLEAN :
       ServerStart(r, s, ip, up)
  \/ \E r \in Requests : ServerCooldown(r)
  \/ \E r \in Requests : ServerFindOne(r)
  \/ \E r \in Requests, ok \in BOOLEAN : ServerInc(r, ok)
  \/ \E r \in Requests, s \in Inputs, ip \in IPs, up \in BOOLEAN :
       DualStart(r, s, ip, up)
  \/ \E r \in Requests : DualIPClaim(r)
  \/ \E r \in Requests : DualSessionClaim(r)
  \/ \E r \in Requests, s \in Inputs, ip \in IPs, up \in BOOLEAN :
       TxnStart(r, s, ip, up)
  \/ \E r \in Requests : TxnCooldown(r)
  \/ \E r \in Requests : TxnExisting(r)
  \/ \E r \in Requests : TxnFindOne(r)
  \/ \E r \in Requests, ok \in BOOLEAN : TxnSave(r, ok)
  \/ \E r \in Requests, ok \in BOOLEAN : TxnCommit(r, ok)

Spec == Init /\ [][Next]_vars

\* the server together with one run of fix-coupon.js against the same store,
\* at one instant of the clock
NextFix ==
  \/ \E r \in Requests, s \in Inputs, ip \in IPs, up \in BOOLEAN :
       MainStart(r, s, ip, up)
  \/ \E r \in Requests : MainCooldown(r)
  \/ \E r \in Requests : MainFindAvailable(r)
  \/ \E r \in Requests, ok \in BOOLEAN : MainStripe(r, ok)
  \/ \E r \in Requests, ok \in BOOLEAN : MainSaveNew(r, ok)
  \/ \E r \in Requests : PreSave(r)
  \/ \E r \in Requests, ok \in BOOLEAN : InsertClaim(r, ok)
  \/ \E r \in Requests, ok \in BOOLEAN : MainSave(r, ok)
  \/ \E r \in Requests, s \in Inputs, ip \in IPs, up \in BOOLEAN :
       ServerStart(r, s, ip, up)
  \/ \E r \in Requests : ServerCooldown(r)
  \/ \E r \in Requests : ServerFindOne(r)
  \/ \E r \in Requests, ok \in BOOLEAN : ServerInc(r, ok)
  \/ FixFindOne
  \/ \E ok \in BOOLEAN : FixSave(ok)

SpecFix == Init /\ [][NextFix]_vars

\* the server while its connection flag is down, at one instant of the clock;
\* Reconnect is the retry that connectToMongoDB schedules after a failure
Reconnect ==
  /\ ~isConnected
  /\ isConnected' = TRUE
  /\ UNCHANGED <<conn, ui, stat, uniqueIndex, fix, rev, hook, now, ticks, coupons, claims, stripe, req>>

InitDown ==
  /\ rev \in Revisions
  /\ hook \in BOOLEAN
  /\ now = 0
  /\ ticks = 0
  /\ coupons \in Pools \ {<<>>}
  /\ claims = <<>>
  /\ stripe = {}
  /\ req = [r \in Requests |-> IdleReq]
  /\ fix = IdleFix
  /\ isConnected = FALSE
  /\ uniqueIndex = TRUE
  /\ stat = IdleStat
  /\ ui = IdleUI
  /\ conn = IdleConn

NextDown ==
  \/ Reconnect
  \/ \E r \in Requests, s \in Inputs, ip \in IPs, up \in BOOLEAN :
       MainStart(r, s, ip, up)
  \/ \E r \in Requests : MainCooldown(r)
  \/ \E r \in Requests : MainFindAvailable(r)
  \/ \E r \in Requests, ok \in BOOLEAN : MainStripe(r, ok)
  \/ \E r \in Requests, ok \in BOOLEAN : MainSaveNew(r, ok)
  \/ \E r \in Requests : PreSave(r)
  \/ \E r \in Requests, ok \in BOOLEAN : InsertClaim(r, ok)
  \/ \E r \in Requests, ok \in BOOLEAN : MainSave(r, ok)
  \/ \E r \in Requests, s \in Inputs, ip \in IPs, up \in BOOLEAN :
       ServerStart(r, s, ip, up)
  \/ \E r \in Requests : ServerCooldown(r)
  \/ \E r \in Requests : ServerFindOne(r)
  \/ \E r \in Requests, ok \in BOOLEAN : ServerInc(r, ok)
  \/ \E r \in Requests, s \in Inputs, ip \in IPs, up \in BOOLEAN :
       DualStart(r, s, ip, up)
  \/ \E r \in Requests : DualIPClaim(r)
  \/ \E r \in Requests : DualSessionClaim(r)
  \/ \E r \in Requests, s \in Inputs, ip \in IPs, up \in BOOLEAN :
       TxnStart(r, s, ip, up)
  \/ \E r \in Requests : TxnCooldown(r)
  \/ \E r \in Requests : TxnExisting(r)
  \/ \E r \in Requests : TxnFindOne(r)
  \/ \E r \in Requests, ok \in BOOLEAN : TxnSave(r, ok)
  \/ \E r \in Requests, ok \in BOOLEAN : TxnCommit(r, ok)

SpecDown == InitDown /\ [][NextDown]_vars

\* a store half an hour after two visitors claimed: visitor 1 from ip1 at 0,
\* visitor 2 from ip2 at 30 min, both served the first seeded coupon
InitLedger ==
  /\ rev \in Revisions
  /\ hook \in BOOLEAN
  /\ now = LedgerAt
  /\ ticks = 0
  /\ coupons = << [SeedCoupon(1, SeedMaxRedemptions) EXCEPT
                     !.timesRedeemed = IF rev = "txn" THEN 0 ELSE Len(Ledger)],
                  SeedCoupon(2, SeedMaxRedemptions) >>
  /\ claims = Ledger
  /\ stripe = {}
  /\ req = [r \in Requests |-> IdleReq]
  /\ fix = IdleFix
  /\ isConnected = TRUE
  /\ uniqueIndex = TRUE
  /\ stat = IdleStat
  /\ ui = IdleUI
  /\ conn = IdleConn

\* the pool of this store never runs out, so the mint branch is left out
NextLedger ==
  \/ \E d \in TickSteps : Tick(d)
  \/ \E r \in Requests, s \in Inputs, ip \in IPs, up \in BOOLEAN :
       MainStart(r, s, ip, up)
  \/ \E r \in Requests : MainCooldown(r)
  \/ \E r \in Requests : MainFindAvailable(r)
  \/ \E r \in Requests : PreSave(r)
  \/ \E r \in Requests, ok \in BOOLEAN : InsertClaim(r, ok)
  \/ \E r \in Requests, ok \in BOOLEAN : MainSave(r, ok)
  \/ \E r \in Requests, s \in Inputs, ip \in IPs, up \in BOOLEAN :
       ServerStart(r, s, ip, up)
  \/ \E r \in Requests : ServerCooldown(r)
  \/ \E r \in Requests : ServerFindOne(r)
  \/ \E r \in Requests, ok \in BOOLEAN : ServerInc(r, ok)
  \/ \E r \in Requests, s \in Inputs, ip \in IPs, up \in BOOLEAN :
       DualStart(r, s, ip, up)
  \/ \E r \in Requests : DualIPClaim(r)
  \/ \E r \in Requests : DualSessionClaim(r)
  \/ \E r \in Requests, s \in Inputs, ip \in IPs, up \in BOOLEAN :
       TxnStart(r, s, ip, up)
  \/ \E r \in Requests : TxnCooldown(r)
  \/ \E r \in Requests : TxnExisting(r)
  \/ \E r \in Requests : TxnFindOne(r)
  \/ \E r \in Requests, ok \in BOOLEAN : TxnSave(r, ok)
  \/ \E r \in Requests, ok \in BOOLEAN : TxnCommit(r, ok)

SpecLedger == InitLedger /\ [][NextLedger]_vars

\* a store that earlier claims have left with a used-up coupon: the coupon
\* incrementRedemptions deactivated, its claim by another visitor two hours old
UsedCoupon == [SeedCoupon(1, 1) EXCEPT !.timesRedeemed = 1, !.active = FALSE]

OldClaim ==
  [sessionId |-> FreshSession(NumReq + 1), ipAddress |-> "ip0", couponId |-> 1,
   claimedAt |-> 0 - 2 * Hour]

InitUsed ==
  /\ rev = "txn"
  /\ hook \in BOOLEAN
  /\ now = 0
  /\ ticks = 0
  /\ coupons \in {<<UsedCoupon>>, <<UsedCoupon, SeedCoupon(2, SeedMaxRedemptions)>>}
  /\ claims = <<OldClaim>>
  /\ stripe = {}
  /\ req = [r \in Requests |-> IdleReq]
  /\ fix = IdleFix
  /\ isConnected = TRUE
  /\ uniqueIndex = TRUE
  /\ stat = IdleStat
  /\ ui = IdleUI
  /\ conn = IdleConn

NextUsed ==
  \/ \E d \in TickSteps : Tick(d)
  \/ \E r \in Requests, s \in Inputs, ip \in IPs, up \in BOOLEAN :
       TxnStart(r, s, ip, up)
  \/ \E r \in Requests : TxnCooldown(r)
  \/ \E r \in Requests : TxnExisting(r)
  \/ \E r \in Requests : TxnFindOne(r)
  \/ \E r \in Requests, ok \in BOOLEAN : TxnSave(r, ok)
  \/ \E r \in Requests : PreSave(r)
  \/ \E r \in Requests, ok \in BOOLEAN : TxnCommit(r, ok)

SpecUsed == InitUsed /\ [][NextUsed]_vars

\* ---------------------------------------------------- maintenance scripts
\* the scripts run against a database the server has seeded (its model has
\* built the index) or against a fresh one
InitScripts ==
  /\ rev \in Revisions
  /\ hook \in BOOLEAN
  /\ now = 0
  /\ ticks = 0
  /\ \/ coupons \in Pools \ {<<>>} /\ uniqueIndex = TRUE
     \/ coupons = <<>> /\ uniqueIndex = FALSE
  /\ stat = IdleStat
  /\ ui = IdleUI
  /\ conn = IdleConn
  /\ claims = <<>>
  /\ stripe = {}
  /\ req = [r \in Requests |-> IdleReq]
  /\ fix = IdleFix
  /\ isConnected = TRUE

NextScripts ==
  \/ \E d \in TickSteps : Tick(d)
  \/ \E ok \in BOOLEAN : createSimpleCoupon(ok)
  \/ FixFindOne
  \/ \E ok \in BOOLEAN : FixSave(ok)
  \/ EnsureIndexes

SpecScripts == InitScripts /\ [][NextScripts]_vars

\* ------------------------------------------------- the claims-only revision
ResetSteps == {TenMinutes, Hour, Day + 1}

InitReset ==
  /\ rev = "reset"
  /\ hook \in BOOLEAN
  /\ now = 0
  /\ ticks = 0
  /\ coupons \in Pools
  /\ claims = <<>>
  /\ stripe = {}
  /\ req = [r \in Requests |-> IdleReq]
  /\ fix = IdleFix
  /\ isConnected = TRUE
  /\ uniqueIndex = TRUE
  /\ stat = IdleStat
  /\ ui = IdleUI
  /\ conn = IdleConn

NextReset ==
  \/ \E d \in ResetSteps : Tick(d)
  \/ \E r \in Requests, s \in Inputs, ip \in IPs : ResetStart(r, s, ip)
  \/ \E r \in Requests : ResetCooldown(r)
  \/ \E r \in Requests : ResetClaimed(r)
  \/ \E r \in Requests : ResetAvailable(r)
  \/ \E r \in Requests : ResetDeleteMany(r)
  \/ \E r \in Requests : ResetFindAll(r)
  \/ \E r \in Requests : ResetRecent(r)
  \/ \E r \in Requests : PreSave(r)
  \/ \E r \in Requests : \E ok \in BOOLEAN : ResetCreate(r, ok)

SpecReset == InitReset /\ [][NextReset]_vars

\* ----------------------------------------------------------- status calls
\* the server of src/index.js, connected or not, over an empty store, a seeded
\* one, or one with claims in its ledger
StatusLedgers == {<<>>, Ledger, <<Ledger[2]>>}

InitStatus ==
  /\ rev = "main"
  /\ hook = FALSE
  /\ now = LedgerAt
  /\ ticks = 0
  /\ claims \in StatusLedgers
  /\ coupons \in IF claims = <<>>
                 THEN Pools
                 ELSE {<< [SeedCoupon(1, SeedMaxRedemptions) EXCEPT
                             !.timesRedeemed = Len(claims)],
                          SeedCoupon(2, SeedMaxRedemptions) >>}
  /\ stripe = {}
  /\ req = [r \in Requests |-> IdleReq]
  /\ fix = IdleFix
  /\ isConnected \in BOOLEAN
  /\ uniqueIndex = TRUE
  /\ stat = IdleStat
  /\ ui = IdleUI
  /\ conn = IdleConn

NextStatus ==
  \/ \E d \in ResetSteps : Tick(d)
  \/ \E k \in Calls : StatusStart(k)
  \/ \E k \in Calls : \E up \in BOOLEAN : StatusConnect(k, up)
  \/ \E k \in Calls : \E stripeOk, ok \in BOOLEAN : StatusSeed(k, stripeOk, ok)
  \/ \E k \in Calls : StatusFind(k)
  \/ \E k \in Calls : StatusClaims(k)

SpecStatus == InitStatus /\ [][NextStatus]_vars

\* ------------------------------------------------------ a nearly used pool
\* two seeded coupons; earlier visitors, an hour apart, have redeemed the first
\* one up to NumReq short of its bound
WornLedger ==
  [i \in 1..(SeedMaxRedemptions - NumReq) |->
     [sessionId |-> FreshSession(NumReq + i), ipAddress |-> "ip0", couponId |-> 1,
      claimedAt |-> 0 - (SeedMaxRedemptions - NumReq - i + 2) * Hour]]

InitWorn ==
  /\ rev \in {"main", "server"}
  /\ hook \in BOOLEAN
  /\ now = 0
  /\ ticks = 0
  /\ coupons = << [SeedCoupon(1, SeedMaxRedemptions) EXCEPT
                     !.timesRedeemed = Len(WornLedger)],
                  SeedCoupon(2, SeedMaxRedemptions) >>
  /\ claims = WornLedger
  /\ stripe = {}
  /\ req = [r \in Requests |-> IdleReq]
  /\ fix = IdleFix
  /\ isConnected = TRUE
  /\ uniqueIndex = TRUE
  /\ stat = IdleStat
  /\ ui = IdleUI
  /\ conn = IdleConn

NextWorn ==
  \/ \E d \in TickSteps : Tick(d)
  \/ \E r \in Requests, s \in Inputs, ip \in IPs, up \in BOOLEAN :
       MainStart(r, s, ip, up)
  \/ \E r \in Requests : MainCooldown(r)
  \/ \E r \in Requests : MainFindAvailable(r)
  \/ \E r \in Requests : PreSave(r)
  \/ \E r \in Requests, ok \in BOOLEAN : InsertClaim(r, ok)
  \/ \E r \in Requests, ok \in BOOLEAN : MainSave(r, ok)
  \/ \E r \in Requests, s \in Inputs, ip \in IPs, up \in BOOLEAN :
       ServerStart(r, s, ip, up)
  \/ \E r \in Requests : ServerCooldown(r)
  \/ \E r \in Requests : ServerFindOne(r)
  \/ \E r \in Requests, ok \in BOOLEAN : ServerInc(r, ok)

SpecWorn == InitWorn /\ [][NextWorn]_vars

\* ---------------------------------------------------------- the front-end
InitUI ==
  /\ rev = "main"
  /\ hook = FALSE
  /\ now = 0
  /\ ticks = 0
  /\ coupons = <<>>
  /\ claims = <<>>
  /\ stripe = {}
  /\ req = [r \in Requests |-> IdleReq]
  /\ fix = IdleFix
  /\ isConnected = TRUE
  /\ uniqueIndex = TRUE
  /\ stat = IdleStat
  /\ ui = IdleUI
  /\ conn = IdleConn

NextUI ==
  \/ \E d \in TickSteps : Tick(d)
  \/ Click
  \/ \E a \in Answers : Response(a[1], a[2])
  \/ RetryTimeout

SpecUI == InitUI /\ [][NextUI]_vars

\* ----------------------------------------- the two handlers of src/index.js
\* POST /api/coupons/next and POST /api/claim-coupon; the server may have
\* failed to connect when it started
InitOne ==
  /\ rev \in {"main", "rev2"}
  /\ hook \in BOOLEAN
  /\ now = 0
  /\ ticks = 0
  /\ isConnected \in BOOLEAN
  /\ coupons \in IF isConnected THEN Pools ELSE Pools \ {<<>>}
  /\ claims = <<>>
  /\ stripe = {}
  /\ req = [r \in Requests |-> IdleReq]
  /\ fix = IdleFix
  /\ uniqueIndex = TRUE
  /\ stat = IdleStat
  /\ ui = IdleUI
  /\ conn = IdleConn

NextOne ==
  \/ \E r \in Requests, s \in Inputs, ip \in IPs, up \in BOOLEAN :
       MainStart(r, s, ip, up)
  \/ \E r \in Requests, s \in Inputs, ip \in IPs, up \in BOOLEAN :
       ClaimCoupon(r, s, ip, up)
  \/ \E r \in Requests : HandlerStep(r)

\* every await of a handler settles: its call returns or fails
SpecOne ==
  InitOne /\ [][NextOne]_vars /\ \A r \in Requests : WF_vars(HandlerStep(r))

\* ------------------------------------------------- the hour of the expiry
\* the server of src/index.js, its seeded coupon one hour short of expiresAt
InitExpiry ==
  /\ rev = "main"
  /\ hook \in BOOLEAN
  /\ now = NinetyDays - Hour
  /\ ticks = 0
  /\ coupons = <<SeedCoupon(1, SeedMaxRedemptions)>>
  /\ claims = <<>>
  /\ stripe = {}
  /\ req = [r \in Requests |-> IdleReq]
  /\ fix = IdleFix
  /\ isConnected = TRUE
  /\ uniqueIndex = TRUE
  /\ stat = IdleStat
  /\ ui = IdleUI
  /\ conn = IdleConn

NextExpiry ==
  \/ \E d \in TickSteps : Tick(d)
  \/ \E r \in Requests, s \in Inputs, ip \in IPs, up \in BOOLEAN :
       MainStart(r, s, ip, up)
  \/ \E r \in Requests : MainCooldown(r)
  \/ \E r \in Requests : MainFindAvailable(r)
  \/ \E r \in Requests, ok \in BOOLEAN : MainStripe(r, ok)
  \/ \E r \in Requests, ok \in BOOLEAN : MainSaveNew(r, ok)
  \/ \E r \in Requests : PreSave(r)
  \/ \E r \in Requests, ok \in BOOLEAN : InsertClaim(r, ok)
  \/ \E r \in Requests, ok \in BOOLEAN : MainSave(r, ok)

SpecExpiry == InitExpiry /\ [][NextExpiry]_vars

\* ------------------------------------------- the last second of a cooldown
\* one visitor claimed at 0; it is now one second before the hour is over
InitEdge ==
  /\ rev \in Revisions
  /\ hook \in BOOLEAN
  /\ now = Hour - 1
  /\ ticks = 0
  /\ coupons = << [SeedCoupon(1, SeedMaxRedemptions) EXCEPT
                     !.timesRedeemed = IF rev = "txn" THEN 0 ELSE 1],
                  SeedCoupon(2, SeedMaxRedemptions) >>
  /\ claims = <<Ledger[1]>>
  /\ stripe = {}
  /\ req = [r \in Requests |-> IdleReq]
  /\ fix = IdleFix
  /\ isConnected = TRUE
  /\ uniqueIndex = TRUE
  /\ stat = IdleStat
  /\ ui = IdleUI
  /\ conn = IdleConn

SpecEdge == InitEdge /\ [][NextLedger]_vars

\* ---- the round-robin revision on a pool that earlier users have drawn from
MaxPast == 3
RobinGap == Hour + Minute

\* the store after k sequential grants to earlier users, RobinGap apart
RECURSIVE RobinPast(_, _)
RobinPast(n, k) ==
  IF k = 0 THEN [store |-> [i \in 1..n |-> RobinCoupon(i)], ledger |-> <<>>]
  ELSE LET p == RobinPast(n, k - 1)
           c == RobinPick(p.store)
       IN [store |-> [p.store EXCEPT ![c] = RobinAssigned(p.store[c], k * RobinGap)],
           ledger |-> Append(p.ledger, [sessionId |-> 10 + k, ipAddress |-> "ip0",
                                        couponId |-> c, claimedAt |-> k * RobinGap])]

InitRobin ==
  /\ rev = "robin"
  /\ hook \in BOOLEAN
  /\ now = (MaxPast + 1) * RobinGap
  /\ ticks = 0
  /\ \E n \in 0..MaxCoupons : \E k \in 0..MaxPast :
       /\ n = 0 => k = 0
       /\ coupons = RobinPast(n, k).store
       /\ claims = RobinPast(n, k).ledger
  /\ stripe = {}
  /\ req = [r \in Requests |-> IdleReq]
  /\ fix = IdleFix
  /\ isConnected \in BOOLEAN
  /\ uniqueIndex = TRUE
  /\ stat = IdleStat
  /\ ui = IdleUI
  /\ conn = IdleConn

NextRobin ==
  \/ \E d \in {1, Hour} : Tick(d)
  \/ \E r \in Requests, s \in Inputs, ip \in IPs, up \in BOOLEAN : RobinStart(r, s, ip, up)
  \/ \E r \in Requests : RobinCooldown(r)
  \/ \E r \in Requests, ok \in BOOLEAN : RobinAssign(r, ok)
  \/ \E r \in Requests : PreSave(r)
  \/ \E r \in Requests, ok \in BOOLEAN : RobinCommit(r, ok)

SpecRobin == InitRobin /\ [][NextRobin]_vars

\* ------------------------------------ the connection of one server process
\* the process starts with the store reachable or not, MONGODB_URI defined or
\* not, and the pool empty or populated
InitConn ==
  /\ rev \in {"main", "server", "txn"}
  /\ hook = FALSE
  /\ now = 0
  /\ ticks = 0
  /\ coupons \in {<<>>, <<SeedCoupon(1, SeedMaxRedemptions),
                         SeedCoupon(2, SeedMaxRedemptions)>>}
  /\ claims = <<>>
  /\ stripe = {}
  /\ req = [r \in Requests |-> IdleReq]
  /\ fix = IdleFix
  /\ isConnected = FALSE
  /\ uniqueIndex = TRUE
  /\ stat = IdleStat
  /\ ui = IdleUI
  /\ \E uri, reachable \in BOOLEAN :
       conn = [IdleConn EXCEPT !.uri = uri, !.reachable = reachable,
                               !.established = FALSE, !.opened = FALSE,
                               !.listening = FALSE, !.booted = FALSE,
                               !.initial = Len(coupons)]

NextConn ==
  \/ Tick(1)
  \/ ConnBoot
  \/ \E a \in Attempts : ConnRequest(a)
  \/ \E a \in Attempts : ConnTimer(a)
  \/ \E a \in Attempts : ConnDisconnected(a)
  \/ ConnError
  \/ \E a \in Attempts : ConnConnect(a)
  \/ \E a \in Attempts : ConnPing(a)
  \/ \E a \in Attempts : ConnCount(a)
  \/ \E a \in Attempts : ConnSeedCount(a)
  \/ \E a \in Attempts, stripeOk \in BOOLEAN : ConnStripe(a, stripeOk)
  \/ \E a \in Attempts, ok \in BOOLEAN : ConnSave(a, ok)
  \/ \E a \in Attempts, ok \in BOOLEAN : ConnInsertMany(a, ok)
  \/ StoreDown
  \/ StoreUp

SpecConn == InitConn /\ [][NextConn]_vars

\* the same process under the scheduling Node guarantees: a pending await is
\* resumed, a due timer fires, an emitted event is handled; requests and the
\* store's outages are under no obligation
AttemptStep(a) ==
  \/ ConnConnect(a)
  \/ ConnPing(a)
  \/ ConnCount(a)
  \/ ConnSeedCount(a)
  \/ \E stripeOk \in BOOLEAN : ConnStripe(a, stripeOk)
  \/ \E ok \in BOOLEAN : ConnSave(a, ok)
  \/ \E ok \in BOOLEAN : ConnInsertMany(a, ok)

SpecLive ==
  /\ InitConn
  /\ [][NextConn]_vars
  /\ WF_vars(ConnBoot)
  /\ \A a \in Attempts : WF_vars(AttemptStep(a))
  /\ WF_vars(\E a \in Attempts : ConnTimer(a))
  /\ WF_vars(\E a \in Attempts : ConnDisconnected(a))

====
